---- MODULE Spec2Model ----
(***************************************************************************)
(* Cash-plan projection engine of paycallendar (src/src/lib/cashflow.ts,   *)
(* lines 1-271), lib/settings (normalizeSettings, currencyRate) and the    *)
(* PUT handler of src/src/app/api/orders/route.ts.                         *)
(*                                                                         *)
(* Specifications.  Spec: calls of buildCashPlan, projectBalanceOnDate and *)
(* evaluateOrderImpact.  TermSpec: one call of buildCashPlan under weak    *)
(* fairness of its steps.  SettingsSpec: the calls of lib/settings.        *)
(* PutSpec: two clients of PUT /api/orders on one order row.               *)
(*                                                                         *)
(* Numbers.  A JavaScript number x is modelled by the integer 1000 * x     *)
(* (three decimals): 1000 is the number 1, 800000 the amount 800.00, 5 the *)
(* amount 0.005.  The inputs are chosen so that every product is exact.    *)
(* NaN is a value of its own (see JsNaN).                                  *)
(*                                                                         *)
(* Dates.  A Date is [day, ms]: the local calendar day as a day number     *)
(* (days since 1970-01-01) and whether the time of day is midnight (ms =   *)
(* 0) or later (ms = 1).  An ISO date string 'YYYY-MM-DD' is modelled by   *)
(* the integer YYYYMMDD, whose order is the order of the strings.          *)
(***************************************************************************)
EXTENDS Integers, Sequences, FiniteSets, TLC

(***************************************************************************)
(* JavaScript values                                                       *)
(***************************************************************************)
\* a value read from a record field: t is the typeof tag, n the number
\* (times 1000), s the characters of a string
Num(x)   == [t |-> "number", n |-> x, s |-> <<>>]
Str(cs)  == [t |-> "string", n |-> 0, s |-> cs]
JsNull   == [t |-> "null", n |-> 0, s |-> <<>>]
JsUndef  == [t |-> "undefined", n |-> 0, s |-> <<>>]
JsNaN    == [t |-> "NaN", n |-> 0, s |-> <<>>]
\* Infinity (sign 1) and -Infinity (sign -1)
JsInf(sign) == [t |-> "Infinity", n |-> sign, s |-> <<>>]

Digits == <<"0", "1", "2", "3", "4", "5", "6", "7", "8", "9">>
IsDigit(c) == \E i \in 1..10 : Digits[i] = c
DigitVal(c) == (CHOOSE i \in 1..10 : Digits[i] = c) - 1

Min(a, b) == IF a < b THEN a ELSE b

\* the longest prefix of cs made of digits
RECURSIVE DigitPrefix(_)
DigitPrefix(cs) ==
  IF cs = <<>> \/ ~IsDigit(Head(cs)) THEN <<>>
  ELSE <<Head(cs)>> \o DigitPrefix(Tail(cs))

RECURSIVE DigitsValue(_, _)
DigitsValue(cs, acc) ==
  IF cs = <<>> THEN acc ELSE DigitsValue(Tail(cs), 10 * acc + DigitVal(Head(cs)))

Drop(cs, k) == SubSeq(cs, k + 1, Len(cs))

\* the first three decimals of a digit string, as thousandths
Thousandths(fs) == DigitsValue(SubSeq(fs \o <<"0", "0", "0">>, 1, 3), 0)

IsNegative(cs) == cs # <<>> /\ Head(cs) = "-"
StripSign(cs) == IF cs # <<>> /\ Head(cs) \in {"-", "+"} THEN Tail(cs) ELSE cs
Signed(neg, v) == IF neg /\ v.t = "number" THEN Num(-v.n) ELSE v

\* the digits after a decimal point at the head of rest
FractionDigits(rest) ==
  IF rest # <<>> /\ Head(rest) = "." THEN DigitPrefix(Tail(rest)) ELSE <<>>
FloatOfParts(ip, fp) ==
  IF ip = <<>> /\ fp = <<>> THEN JsNaN
  ELSE Num(1000 * DigitsValue(ip, 0) + Thousandths(fp))
FloatAfterInt(ip, body) == FloatOfParts(ip, FractionDigits(Drop(body, Len(ip))))
IntOfDigits(ip) == IF ip = <<>> THEN JsNaN ELSE Num(1000 * DigitsValue(ip, 0))

\* parseFloat(string): optional sign, digits, optional fraction; the longest
\* numeric prefix counts, NaN when there is none
parseFloat(cs) ==
  Signed(IsNegative(cs), FloatAfterInt(DigitPrefix(StripSign(cs)), StripSign(cs)))

\* Number.parseInt(string, 10): optional sign and digits, NaN when no digit
parseInt(cs) == Signed(IsNegative(cs), IntOfDigits(DigitPrefix(StripSign(cs))))

\* !value
Falsy(v) ==
  \/ v.t \in {"null", "undefined", "NaN"}
  \/ v.t = "number" /\ v.n = 0
  \/ v.t = "string" /\ v.s = <<>>

\* Math.trunc
Trunc(x) == IF x >= 0 THEN (x \div 1000) * 1000 ELSE -(((-x) \div 1000) * 1000)

\* a * b for numbers in thousandths: floor(a * b / 1000), computed by parts to
\* stay within the integers of the checker
Mul(a, b) == a * (b \div 1000) + (a * (b % 1000)) \div 1000

\* Number(x.toFixed(2)): the nearest hundredth, the larger one in magnitude
\* when two are equally near
toFixed2(x) ==
  IF x >= 0 THEN ((x + 5) \div 10) * 10 ELSE -(((-x + 5) \div 10) * 10)

(***************************************************************************)
(* Calendar (Date, date-fns)                                               *)
(***************************************************************************)
\* The local calendar of Date: the day number (days since 1970-01-01) of a
\* civil date and back (proleptic Gregorian calendar, eras of 400 years).
YearOfEra(yy) == yy - (yy \div 400) * 400
DayOfYearOf(m, d) == (153 * (IF m > 2 THEN m - 3 ELSE m + 9) + 2) \div 5 + d - 1
DayOfEraOf(yoe, doy) == yoe * 365 + yoe \div 4 - yoe \div 100 + doy
DaysOfShifted(yy, m, d) ==
  (yy \div 400) * 146097 + DayOfEraOf(YearOfEra(yy), DayOfYearOf(m, d)) - 719468

\* day number of the civil date y-m-d; d may exceed the month's length, as
\* in Date.prototype.setDate, and then runs into the following month
daysFromCivil(y, m, d) == DaysOfShifted(IF m <= 2 THEN y - 1 ELSE y, m, d)

CivilOfMonthPart(era, yoe, doy, mp) ==
  [y |-> yoe + era * 400 + (IF mp >= 10 THEN 1 ELSE 0),
   m |-> IF mp < 10 THEN mp + 3 ELSE mp - 9,
   d |-> doy - (153 * mp + 2) \div 5 + 1]
CivilOfDayOfYear(era, yoe, doy) == CivilOfMonthPart(era, yoe, doy, (5 * doy + 2) \div 153)
CivilOfYearOfEra(era, doe, yoe) ==
  CivilOfDayOfYear(era, yoe, doe - (365 * yoe + yoe \div 4 - yoe \div 100))
CivilOfDayOfEra(era, doe) ==
  CivilOfYearOfEra(era, doe, (doe - doe \div 1460 + doe \div 36524 - doe \div 146096) \div 365)
CivilOfShifted(zz) == CivilOfDayOfEra(zz \div 146097, zz % 146097)

\* the civil date [y, m, d] of a day number; the day number is evaluated
\* once, whatever expression gives it
civilFromDays(z) == CHOOSE c \in {CivilOfShifted(v + 719468) : v \in {z}} : TRUE

Date(day, ms) == [day |-> day, ms |-> ms]

isAfter(a, b) == a.day > b.day \/ (a.day = b.day /\ a.ms > b.ms)

startOfDay(date) == Date(date.day, 0)

addDays(date, n) == Date(date.day + n, date.ms)

FirstOfMonth(c) == daysFromCivil(c.y, c.m, 1)
FirstOfNextMonth(c) ==
  IF c.m = 12 THEN daysFromCivil(c.y + 1, 1, 1) ELSE daysFromCivil(c.y, c.m + 1, 1)
DaysInMonthOf(c) == FirstOfNextMonth(c) - FirstOfMonth(c)

startOfMonth(date) == Date(FirstOfMonth(civilFromDays(date.day)), 0)

getDaysInMonth(date) == DaysInMonthOf(civilFromDays(date.day))

\* date.setDate(day): the given day of the month of date
SetDayOf(c, day, ms) == Date(daysFromCivil(c.y, c.m, day), ms)
setDate(date, day) == SetDayOf(civilFromDays(date.day), day, date.ms)

\* addMonths: the same day of the month n months later, or that month's
\* last day when it is shorter
MonthOfIndex(idx) == [y |-> idx \div 12, m |-> (idx % 12) + 1, d |-> 1]
AddMonthsTo(target, d, ms) == SetDayOf(target, Min(d, DaysInMonthOf(target)), ms)
AddMonthsOf(c, n, ms) == AddMonthsTo(MonthOfIndex(c.y * 12 + (c.m - 1) + n), c.d, ms)
addMonths(date, n) == AddMonthsOf(civilFromDays(date.day), n, date.ms)

\* parseISO('YYYY-MM-DD'): local midnight of that day
parseISO(key) ==
  Date(daysFromCivil(key \div 10000, (key \div 100) % 100, key % 100), 0)

\* formatISO(date, {representation: 'date'})
IsoOf(c) == c.y * 10000 + c.m * 100 + c.d
formatISO(date) == IsoOf(civilFromDays(date.day))

\* toDateKey of a Date
toDateKeyOfDate(date) == formatISO(startOfDay(date))

\* toDateKey of an ISO string
toDateKey(key) == formatISO(startOfDay(parseISO(key)))

(***************************************************************************)
(* lib/settings: currencyRate                                              *)
(***************************************************************************)
\* DEFAULT_SETTINGS.cnyRate
DefaultCnyRate == 1000

\* a settings argument: absent (undefined), or an object with a cnyRate
NoSettings == [present |-> FALSE, cnyRate |-> JsUndef]
Settings(rate) == [present |-> TRUE, cnyRate |-> rate]

\* settings?.cnyRate ?? DEFAULT_SETTINGS.cnyRate
CnyRateOrDefault(s) ==
  IF ~s.present \/ s.cnyRate.t \in {"undefined", "null"} THEN Num(DefaultCnyRate)
  ELSE s.cnyRate

\* rate > 0 ? rate : 1   (NaN > 0 is false, Infinity > 0 is true)
PositiveOrOne(r) ==
  IF r.t \in {"number", "Infinity"} /\ r.n > 0 THEN r ELSE Num(1000)

\* the multiplier, as a value: a number or Infinity
currencyRate(currency, s) ==
  PositiveOrOne(IF currency = "CNY" THEN CnyRateOrDefault(s) ELSE Num(1000))

(***************************************************************************)
(* lib/settings: normalizeSettings.  The rates of this function are in     *)
(* hundred-thousandths, one decimal more than toFixed(4) keeps.            *)
(***************************************************************************)
\* raw: null or undefined, an object { cnyRate }, or a row { key, value:
\* { cnyRate } }
RawNullish == [obj |-> FALSE, value |-> [obj |-> FALSE, cnyRate |-> JsUndef], cnyRate |-> JsUndef]
RawObject(r) == [obj |-> TRUE, value |-> [obj |-> FALSE, cnyRate |-> JsUndef], cnyRate |-> r]
RawRow(r) == [obj |-> TRUE, value |-> [obj |-> TRUE, cnyRate |-> r], cnyRate |-> JsUndef]

\* (raw as { value?: unknown })?.value ?? raw
UnwrapValue(r) == IF r.obj /\ r.value.obj THEN r.value ELSE r

\* candidate?.cnyRate ?? 0
CnyRateOrZero(c) ==
  IF ~c.obj \/ c.cnyRate.t \in {"undefined", "null"} THEN Num(0) ELSE c.cnyRate

\* the first five decimals of a fraction, as hundred-thousandths
HundredThousandths(cs) ==
  DigitsValue(SubSeq(cs \o <<"0", "0", "0", "0", "0">>, 1, 5), 0)

\* Number(string) for a string in plain decimal notation: empty is 0, a
\* string with anything after the number is NaN
NumberOfString(cs) ==
  LET body == StripSign(cs)
      int  == DigitPrefix(body)
      rest == Drop(body, Len(int))
      frac == IF rest # <<>> /\ Head(rest) = "." THEN DigitPrefix(Tail(rest)) ELSE <<>>
      used == Len(int) + (IF rest # <<>> /\ Head(rest) = "." THEN 1 + Len(frac) ELSE 0)
  IN IF cs = <<>> THEN Num(0)
     ELSE IF Len(int) + Len(frac) = 0 \/ used # Len(body) THEN JsNaN
     ELSE Num((IF IsNegative(cs) THEN -1 ELSE 1)
              * (DigitsValue(int, 0) * 100000 + HundredThousandths(frac)))

\* Number(value)
NumberOf(v) == IF v.t = "string" THEN NumberOfString(v.s) ELSE v

\* Number(cnyRate.toFixed(4)) for cnyRate > 0
toFixed4(x) == ((x + 5) \div 10) * 10

\* Number.isFinite(cnyRate) && cnyRate > 0 ? Number(cnyRate.toFixed(4)) : 1
FinitePositiveOrDefault(r) ==
  IF r.t = "number" /\ r.n > 0 THEN Num(toFixed4(r.n)) ELSE Num(DefaultCnyRate * 100)

normalizeSettings(r) ==
  [present |-> TRUE, cnyRate |-> FinitePositiveOrDefault(NumberOf(CnyRateOrZero(UnwrapValue(r))))]

(***************************************************************************)
(* cashflow.ts: helpers                                                    *)
(***************************************************************************)
\* mutant: an unreadable amount counts for 1
NaNToUnit(parsed) == IF parsed.t = "NaN" THEN 1000 ELSE parsed.n

\* Number.isNaN(parsed) ? 0 : parsed
NaNToZero(parsed) == IF parsed.t = "NaN" THEN 0 ELSE parsed.n

normalizeAmount(value) ==
  IF Falsy(value) THEN 0
  ELSE NaNToZero(IF value.t = "string" THEN parseFloat(value.s) ELSE value)

\* mutant: a day outside 1..31 is moved to the nearest of 1 and 31
DayInRangeClamped(day) == IF day < 1000 THEN 1 ELSE IF day > 31000 THEN 31 ELSE day \div 1000

\* day < 1 || day > 31 ? null : day, for the truncated day (in thousandths)
DayInRange(day) == IF day < 1000 \/ day > 31000 THEN 0 ELSE day \div 1000

\* !Number.isFinite(parsed) ? null : the day of Math.trunc(parsed)
DayOfParsed(parsed) == IF parsed.t # "number" THEN 0 ELSE DayInRange(Trunc(parsed.n))

\* the day of the month 1..31, or 0 for null
normalizeDay(value) ==
  IF value.t \in {"null", "undefined"} \/ (value.t = "string" /\ value.s = <<>>) THEN 0
  ELSE DayOfParsed(IF value.t = "string" THEN parseInt(value.s) ELSE value)

\* mutant: the day is not clamped
SafeDayUnclamped(day, daysInMonth) == day

\* Math.min(day, daysInMonth)
SafeDay(day, daysInMonth) == Min(day, daysInMonth)

resolveMonthlyDate(monthStart, day) ==
  setDate(monthStart, SafeDay(day, getDaysInMonth(monthStart)))

(***************************************************************************)
(* cashflow.ts: collectEvents                                              *)
(***************************************************************************)
CashEvent(date, type, amount, description, source) ==
  [date |-> date, type |-> type, amount |-> amount,
   description |-> description, source |-> source]

\* rates: Record<Currency, number>; the plans are built with finite rates
Rates(s) == [RUB |-> 1000, CNY |-> currencyRate("CNY", s).n]

\* rates[order.currency ?? 'RUB'] ?? 1
OrderRate(order, rates) ==
  LET currency == IF order.currency \in {"null", "undefined"} THEN "RUB" ELSE order.currency
  IN IF currency \in DOMAIN rates THEN rates[currency] ELSE 1000

\* mutant: a planned payment of today is dropped too
IsStalePlannedInclusive(kind, expectedDate, todayKey) ==
  kind = "planned" /\ expectedDate <= todayKey

\* inflow.kind === 'planned' && expectedDate < todayKey
IsStalePlanned(kind, expectedDate, todayKey) ==
  kind = "planned" /\ expectedDate < todayKey

InflowEvent(inflow) ==
  CashEvent(toDateKey(inflow.expected_date), "inflow", normalizeAmount(inflow.amount),
            IF inflow.kind = "fixed" THEN "inflow-fixed" ELSE "inflow-planned", "none")

RECURSIVE InflowEvents(_, _)
InflowEvents(infl, todayKey) ==
  IF infl = <<>> THEN <<>>
  ELSE LET inflow == Head(infl)
       IN (IF IsStalePlanned(inflow.kind, toDateKey(inflow.expected_date), todayKey)
           THEN <<>> ELSE <<InflowEvent(inflow)>>)
          \o InflowEvents(Tail(infl), todayKey)

\* mutant: the deposit is not converted
OrderDepositUnconverted(order, rate) == normalizeAmount(order.deposit_amount)

OrderDeposit(order, rate) == Mul(normalizeAmount(order.deposit_amount), rate)

OrderRemainder(order, rate) ==
  Mul(normalizeAmount(order.total_amount), rate) - OrderDeposit(order, rate)

\* Boolean(order.deposit_paid)
DepositPaid(order) == order.deposit_paid = "true"

\* mutant: the paid flag is ignored
EmitsDepositIgnoringPaid(deposit, depositPaid) == deposit > 0

\* deposit > 0 && !depositPaid
EmitsDeposit(deposit, depositPaid) == deposit > 0 /\ ~depositPaid

\* mutant: a zero remainder is emitted too
EmitsRemainderOrZero(remainder) == remainder >= 0

\* remainder > 0
EmitsRemainder(remainder) == remainder > 0

\* order.deposit_date || new Date(); a missing deposit_date is 0
DepositDateKey(order, clock) ==
  IF order.deposit_date = 0 THEN toDateKeyOfDate(clock) ELSE toDateKey(order.deposit_date)

DepositEvents(order, deposit, clock) ==
  IF EmitsDeposit(deposit, DepositPaid(order))
  THEN <<CashEvent(DepositDateKey(order, clock), "outflow", -deposit, "deposit", order.id)>>
  ELSE <<>>

\* mutant: the final payment is booked as money coming in
RemainderEventsAsInflow(order, remainder) ==
  IF EmitsRemainder(remainder)
  THEN <<CashEvent(toDateKey(order.due_date), "inflow", remainder, "remainder", order.id)>>
  ELSE <<>>

RemainderEvents(order, remainder) ==
  IF EmitsRemainder(remainder)
  THEN <<CashEvent(toDateKey(order.due_date), "outflow", -remainder, "remainder", order.id)>>
  ELSE <<>>

OrderEventsAt(order, rate, clock) ==
  DepositEvents(order, OrderDeposit(order, rate), clock)
  \o RemainderEvents(order, OrderRemainder(order, rate))

OrderEvents(order, rates, clock) == OrderEventsAt(order, OrderRate(order, rates), clock)

RECURSIVE AllOrderEvents(_, _, _)
AllOrderEvents(ords, rates, clock) ==
  IF ords = <<>> THEN <<>>
  ELSE OrderEvents(Head(ords), rates, clock) \o AllOrderEvents(Tail(ords), rates, clock)

collectEvents(infl, ords, rates, clock) ==
  InflowEvents(infl, toDateKeyOfDate(clock)) \o AllOrderEvents(ords, rates, clock)

(***************************************************************************)
(* cashflow.ts: collectExpenseEvents                                       *)
(***************************************************************************)
\* number | null
None    == [null |-> TRUE, v |-> 0]
Some(x) == [null |-> FALSE, v |-> x]

\* value !== null && value !== undefined
Provided(value) == value.t \notin {"null", "undefined"}

\* typeof secondaryDay === 'number'
HasSplit(secondaryDay) == secondaryDay # 0

AmountPair(p, q) == [primaryAmount |-> p, secondaryAmount |-> q]

\* mutant: the secondary part is set to the whole amount
SecondaryFromPrimaryWhole(total, a) ==
  IF ~a.primaryAmount.null /\ a.secondaryAmount.null
  THEN AmountPair(a.primaryAmount, Some(total)) ELSE a

\* if (primaryAmount !== null && secondaryAmount === null)
SecondaryFromPrimary(total, a) ==
  IF ~a.primaryAmount.null /\ a.secondaryAmount.null
  THEN AmountPair(a.primaryAmount, Some(total - a.primaryAmount.v)) ELSE a

\* if (secondaryAmount !== null && primaryAmount === null)
PrimaryFromSecondary(total, a) ==
  IF ~a.secondaryAmount.null /\ a.primaryAmount.null
  THEN AmountPair(Some(total - a.secondaryAmount.v), a.secondaryAmount) ELSE a

\* if (primaryAmount === null) primaryAmount = totalAmount
PrimaryDefault(total, a) ==
  IF a.primaryAmount.null THEN AmountPair(Some(total), a.secondaryAmount) ELSE a

\* if (secondaryAmount === null) secondaryAmount = totalAmount - primaryAmount
SecondaryDefault(total, a) ==
  IF a.secondaryAmount.null
  THEN AmountPair(a.primaryAmount, Some(total - a.primaryAmount.v)) ELSE a

\* the branch if (hasSplit) ... else if (primaryAmount === null) ...
Reconcile(total, a, hasSplit) ==
  IF hasSplit
  THEN SecondaryDefault(total,
         PrimaryDefault(total, PrimaryFromSecondary(total, SecondaryFromPrimary(total, a))))
  ELSE PrimaryDefault(total, a)

\* provided ? normalizeAmount(value) : null
AmountOrNull(value) == IF Provided(value) THEN Some(normalizeAmount(value)) ELSE None

\* the split reconciliation: [primaryAmount, secondaryAmount]
ResolveAmounts(expense, hasSplit) ==
  Reconcile(normalizeAmount(expense.amount),
            AmountPair(AmountOrNull(expense.amount_primary),
                       AmountOrNull(expense.amount_secondary)),
            hasSplit)

\* !primaryAmount && !secondaryAmount
NothingToCharge(am) ==
  (am.primaryAmount.null \/ am.primaryAmount.v = 0)
  /\ (am.secondaryAmount.null \/ am.secondaryAmount.v = 0)

\* amount ?? 0
OrZero(a) == IF a.null THEN 0 ELSE a.v

\* hasSplit && secondaryDay && (secondaryAmount ?? 0) > 0
HasSecondaryEvent(hasSplit, secondaryDay, secondaryAmount) ==
  hasSplit /\ secondaryDay # 0 /\ OrZero(secondaryAmount) > 0

\* mutant: a date before today is accepted
InHorizonFromAnyDay(date, today, horizonLimit) == ~isAfter(date, horizonLimit)

\* !isAfter(today, date) && !isAfter(date, horizonLimit)
InHorizon(date, today, horizonLimit) ==
  ~isAfter(today, date) /\ ~isAfter(date, horizonLimit)

PrimaryEvents(expense, l, primaryDate, today, horizonLimit) ==
  IF InHorizon(primaryDate, today, horizonLimit) /\ OrZero(l.primaryAmount) > 0
  THEN <<CashEvent(toDateKeyOfDate(primaryDate), "outflow", -OrZero(l.primaryAmount),
                   IF HasSecondaryEvent(l.hasSplit, l.secondaryDay, l.secondaryAmount)
                   THEN "expense-1/2" ELSE "expense", expense.id)>>
  ELSE <<>>

SecondaryEvents(expense, l, secondaryDate, today, horizonLimit) ==
  IF InHorizon(secondaryDate, today, horizonLimit)
  THEN <<CashEvent(toDateKeyOfDate(secondaryDate), "outflow", -OrZero(l.secondaryAmount),
                   "expense-2/2", expense.id)>>
  ELSE <<>>

\* the body of the month loop: the events of one month of one expense
MonthEvents(expense, l, today, horizonLimit) ==
  PrimaryEvents(expense, l, resolveMonthlyDate(l.cursor, l.primaryDay), today, horizonLimit)
  \o
  (IF HasSecondaryEvent(l.hasSplit, l.secondaryDay, l.secondaryAmount)
   THEN SecondaryEvents(expense, l, resolveMonthlyDate(l.cursor, l.secondaryDay),
                        today, horizonLimit)
   ELSE <<>>)

\* the locals of an expense before its month loop
LocalsOfDays(expense, primaryDay, secondaryDay, am) ==
  [primaryDay |-> primaryDay, secondaryDay |-> secondaryDay,
   primaryAmount |-> am.primaryAmount, secondaryAmount |-> am.secondaryAmount,
   hasSplit |-> HasSplit(secondaryDay), cursor |-> Date(0, 0)]
LocalsOfSecondary(expense, primaryDay, secondaryDay) ==
  LocalsOfDays(expense, primaryDay, secondaryDay,
               ResolveAmounts(expense, HasSplit(secondaryDay)))
ExpenseLocals(expense) ==
  LocalsOfSecondary(expense, normalizeDay(expense.day_primary),
                    normalizeDay(expense.day_secondary))

\* if (!primaryDay) return;  if (!primaryAmount && !secondaryAmount) return;
ReturnsEarly(l) == l.primaryDay = 0 \/ NothingToCharge(l)

(***************************************************************************)
(* cashflow.ts: buildCashPlan                                              *)
(***************************************************************************)
\* mutant: only the last account counts
SumBalancesLastOnly(accs) ==
  IF accs = <<>> THEN 0 ELSE normalizeAmount(accs[Len(accs)].balance)

RECURSIVE SumBalances(_)
SumBalances(accs) ==
  IF accs = <<>> THEN 0
  ELSE SumBalances(SubSeq(accs, 1, Len(accs) - 1)) + normalizeAmount(accs[Len(accs)].balance)

RECURSIVE SumAmounts(_)
SumAmounts(evs) ==
  IF evs = <<>> THEN 0 ELSE Head(evs).amount + SumAmounts(Tail(evs))

RemoveAt(seq, i) == SubSeq(seq, 1, i - 1) \o SubSeq(seq, i + 1, Len(seq))

\* .sort((a, b) => (a.date > b.date ? 1 : -1)): the comparator never answers
\* 0, so it orders the dates and leaves the order of the events of one date
\* to the engine's algorithm: every arrangement by ascending date
RECURSIVE SortOutcomes(_)
SortOutcomes(evs) ==
  IF evs = <<>> THEN {<<>>}
  ELSE LET firsts == {i \in 1..Len(evs) : \A j \in 1..Len(evs) : ~(evs[i].date > evs[j].date)}
       IN UNION {{<<evs[i]>> \o rest : rest \in SortOutcomes(RemoveAt(evs, i))} : i \in firsts}

\* mutant: the filter keeps the events dated up to the day
EventsUpTo(evs, dateKey) == SelectSeq(evs, LAMBDA e : e.date <= dateKey)

\* mutant: an array sorted before may come out in another order
SortChoicesAnew(evs, sorts) == SortOutcomes(evs)

\* the engine's sort is a function of the array it is given: an array it has
\* sorted before (sorts holds the pairs <<array, result>>) comes out as before
SortChoices(evs, sorts) ==
  IF \E p \in sorts : p[1] = evs
  THEN {p[2] : p \in {q \in sorts : q[1] = evs}}
  ELSE SortOutcomes(evs)

\* events.filter((event) => event.date === dateKey)
EventsOn(evs, dateKey) == SelectSeq(evs, LAMBDA e : e.date = dateKey)

\* mutant: only the first event of the day is added
BalanceAfterFirstOnly(balance, todaysEvents) ==
  IF todaysEvents = <<>> THEN balance ELSE balance + Head(todaysEvents).amount

\* todaysEvents.forEach((event) => { balance += event.amount; })
BalanceAfter(balance, todaysEvents) == balance + SumAmounts(todaysEvents)

\* mutant: the minimum is replaced by the latest balance
NextMinBalanceLatest(minBalance, balance) == balance

\* Math.min(minBalance, balance)
NextMinBalance(minBalance, balance) == Min(minBalance, balance)

\* mutant: the gap is not rounded
CashGapUnrounded(minBalance) == IF minBalance < 0 THEN -minBalance ELSE 0

\* minBalance < 0 ? Number((-minBalance).toFixed(2)) : 0
CashGap(minBalance) == IF minBalance < 0 THEN toFixed2(-minBalance) ELSE 0

\* mutant: a DailyStat keeps the first event of its day alone
DailyStatOfFirst(dateKey, balance, todaysEvents) ==
  [date |-> dateKey, balance |-> toFixed2(balance), events |-> <<todaysEvents[1]>>]

DailyStat(dateKey, balance, todaysEvents) ==
  [date |-> dateKey, balance |-> toFixed2(balance), events |-> todaysEvents]

\* mutant: the empty plan never reports a gap
EmptyPlanWithoutGap(opening) ==
  [openingBalance |-> toFixed2(opening), daily |-> <<>>,
   minBalance |-> toFixed2(opening), cashGap |-> 0]

\* the result returned when there is no event
EmptyPlan(opening) ==
  LET normalizedOpening == toFixed2(opening)
  IN [openingBalance |-> normalizedOpening, daily |-> <<>>,
      minBalance |-> normalizedOpening, cashGap |-> CashGap(normalizedOpening)]

\* mutant: the minimum is taken over the daily balances alone
WalkedPlanOfDaily(opening, dailyStats, minBalance) ==
  [openingBalance |-> toFixed2(opening), daily |-> dailyStats,
   minBalance |-> IF dailyStats = <<>> THEN toFixed2(minBalance)
                  ELSE CHOOSE b \in {dailyStats[i].balance : i \in 1..Len(dailyStats)} :
                         \A j \in 1..Len(dailyStats) : b <= dailyStats[j].balance,
   cashGap |-> CashGap(minBalance)]

\* the result returned after the walk
WalkedPlan(opening, dailyStats, minBalance) ==
  [openingBalance |-> toFixed2(opening), daily |-> dailyStats,
   minBalance |-> toFixed2(minBalance), cashGap |-> CashGap(minBalance)]

\* mutant: the walk runs to the last event whatever the horizon
EndDateLastEvent(lastEventDate, horizonLimit) == lastEventDate

\* isAfter(lastEventDate, horizonLimit) ? horizonLimit : lastEventDate
EndDate(lastEventDate, horizonLimit) ==
  IF isAfter(lastEventDate, horizonLimit) THEN horizonLimit ELSE lastEventDate

(***************************************************************************)
(* cashflow.ts: projectBalanceOnDate, evaluateOrderImpact                  *)
(***************************************************************************)
\* plan.daily.find((day) => day.date === target): the index of the first
\* DailyStat of that date, 0 when there is none
FindDay(stats, target) ==
  IF \E i \in 1..Len(stats) : stats[i].date = target
  THEN CHOOSE i \in 1..Len(stats) :
         stats[i].date = target /\ \A j \in 1..(i - 1) : stats[j].date # target
  ELSE 0

\* mutant: without a match the first DailyStat is taken
RelevantDayOrFirst(stats, found) == IF found # 0 THEN stats[found] ELSE stats[1]

\* find(...) || plan.daily[plan.daily.length - 1]
RelevantDay(stats, found) == IF found # 0 THEN stats[found] ELSE stats[Len(stats)]

projectBalanceOnDate(p, targetDate) ==
  IF Len(p.daily) = 0 THEN None
  ELSE Some(RelevantDay(p.daily, FindDay(p.daily, toDateKey(targetDate))).balance)

\* horizonDays = 120, the default of buildCashPlan
HorizonDefault == 120

\* an order without id: Omit<SupplierOrder, 'id'>
Candidate(total, deposit, paid, depositDate, dueDate, cur) ==
  [total_amount |-> total, deposit_amount |-> deposit, deposit_paid |-> paid,
   deposit_date |-> depositDate, due_date |-> dueDate, currency |-> cur]

\* { ...candidate, id: 'new-order', supplier_id: candidate.supplier_id }
PlaceholderOrder(c) ==
  [id |-> "new-order", total_amount |-> c.total_amount, deposit_amount |-> c.deposit_amount,
   deposit_paid |-> c.deposit_paid, deposit_date |-> c.deposit_date,
   due_date |-> c.due_date, currency |-> c.currency]

\* mutant: the placeholder is pushed onto the caller's list
CallerOrdersPushed(ords, placeholderOrder) == Append(ords, placeholderOrder)

\* the caller's order list after the call: the spread copies it, nothing is
\* pushed onto it
CallerOrders(ords, placeholderOrder) == ords

\* mutant: the existing orders are left out of the inner plan
ImpactOrdersCandidateOnly(ords, placeholderOrder) == <<placeholderOrder>>

\* [...orders, placeholderOrder]
ImpactOrders(ords, placeholderOrder) == Append(ords, placeholderOrder)

\* mutant: the minimum reported is the opening balance
OrderImpactOfOpening(p) ==
  [ok |-> p.openingBalance >= 0, minBalance |-> p.openingBalance, cashGap |-> p.cashGap]

\* { ok: plan.minBalance >= 0, minBalance: plan.minBalance, cashGap: plan.cashGap }
OrderImpact(p) ==
  [ok |-> p.minBalance >= 0, minBalance |-> p.minBalance, cashGap |-> p.cashGap]

VARIABLES
  accounts, inflows, orders, expenses, settings, horizonDays,  \* the arguments
  now,             \* new Date(): the clock during the call
  pc,              \* where the call is
  collected,       \* the events in the order they were collected
  events,          \* the sorted array
  ei,              \* collectExpenseEvents: index of the expense being expanded
  loc,             \* collectExpenseEvents: the locals of that expense
  openingBalance,  \* buildCashPlan: the sum of the balances
  walk,            \* buildCashPlan: cursor, endDate, balance, minBalance
  daily,           \* buildCashPlan: the DailyStat list being built
  plan,            \* the CashPlanResult returned
  candidate,       \* the order submitted for an impact check, if any
  baseline,        \* the plan the page holds when the impact check is made
  impact,          \* evaluateOrderImpact: the OrderImpact returned
  projection,      \* projectBalanceOnDate: the target date and the answer
  raw, ofCurrency, \* lib/settings: the arguments of the calls
  normalized,      \* normalizeSettings: the AppSettings returned
  rate,            \* currencyRate: the multiplier returned
  rerun,           \* whether the page builds its plan a second time
  previous,        \* the plan of the first build, once the second has begun
  engine,          \* the arrays sorted so far, each with the order it was given
  row,             \* supplier_orders: the stored order row
  clock,           \* the clock that stamps updated_at
  puts             \* the PUT /api/orders requests of the clients

inputs == <<accounts, inflows, orders, expenses, settings, horizonDays, now>>
callers == <<candidate, baseline, impact, projection, rerun, previous>>
lib == <<raw, ofCurrency, normalized, rate>>
api == <<row, clock, puts>>
vars == <<accounts, inflows, orders, expenses, settings, horizonDays, now,
          pc, collected, events, ei, loc, openingBalance, walk, daily, plan,
          candidate, baseline, impact, projection, raw, ofCurrency, normalized, rate,
          rerun, previous, engine, row, clock, puts>>

(***************************************************************************)
(* Input records                                                           *)
(***************************************************************************)
MaxAccounts == 2
MaxInflows  == 2
MaxOrders   == 2
MaxExpenses == 2

SeqsUpTo(S, n) == UNION {[1..k -> S] : k \in 0..n}
Optional(S) == {<<>>} \cup {<<x>> : x \in S}

\* the ISO string of the day off days after the day number today
K(today, off) == formatISO(Date(today + off, 0))

Account(balance) == [balance |-> balance]

Inflow(amount, expected, kind) ==
  [amount |-> amount, expected_date |-> expected, kind |-> kind]

Order(total, deposit, paid, depositDate, dueDate, currency) ==
  [id |-> "", total_amount |-> total, deposit_amount |-> deposit, deposit_paid |-> paid,
   deposit_date |-> depositDate, due_date |-> dueDate, currency |-> currency]

Expense(amount, ap, as, dp, ds) ==
  [id |-> "", amount |-> amount, amount_primary |-> ap, amount_secondary |-> as,
   day_primary |-> dp, day_secondary |-> ds]

OrderIds   == <<"order-1", "order-2", "order-3", "order-4">>
ExpenseIds == <<"expense-1", "expense-2", "expense-3", "expense-4">>

\* the rows of a table have distinct ids
WithIds(rows, ids) == [i \in 1..Len(rows) |-> [rows[i] EXCEPT !.id = ids[i]]]

Jan30 == Date(daysFromCivil(2025, 1, 30), 1)
Jan31Leap == Date(daysFromCivil(2024, 1, 31), 0)
Mar31 == Date(daysFromCivil(2025, 3, 31), 1)
Dec20 == Date(daysFromCivil(2025, 12, 20), 1)

\* the order of the scenario of the specification: total 2000, deposit 800
\* on day+5, remainder on day+20
StdOrder(t, currency, paid) ==
  Order(Num(2000000), Num(800000), paid, K(t, 5), K(t, 20), currency)

(* mixed plans: a few records of each kind *)
PlanAccounts == {<<>>, <<Account(Num(1000000))>>, <<Account(Num(-4))>>}
PlanInflows(t) ==
  Optional({Inflow(Num(500000), K(t, 10), "fixed"), Inflow(Num(300000), K(t, -2), "fixed"),
            Inflow(Num(500000), K(t, -1), "planned"), Inflow(Num(250005), K(t, 5), "planned")})
PlanOrders(t) ==
  Optional({StdOrder(t, "RUB", "false"), StdOrder(t, "CNY", "false"),
            StdOrder(t, "RUB", "true"),
            Order(Num(700000), Num(100000), "false", 0, K(t, 25), "RUB")})
PlanExpenses ==
  Optional({Expense(Num(100000), JsNull, JsNull, Num(5000), JsNull),
            Expense(Num(900000), Num(300000), JsNull, Num(31000), Num(10000))})

InitPlan ==
  /\ now = Jan30
  /\ horizonDays \in {20, 35}
  /\ accounts \in PlanAccounts
  /\ inflows \in PlanInflows(now.day)
  /\ orders \in {WithIds(o, OrderIds) : o \in PlanOrders(now.day)}
  /\ expenses \in {WithIds(e, ExpenseIds) : e \in PlanExpenses}
  /\ settings \in {NoSettings, Settings(Num(2000))}

(* accounts: several balances, numbers and strings *)
BalanceSet ==
  {Num(1000000), Num(-4), Num(-250005), Str(<<"1", "2", ".", "5">>), Str(<<"a", "b">>), JsNull}

InitAccounts ==
  /\ now = Jan31Leap
  /\ horizonDays = 20
  /\ accounts \in SeqsUpTo({Account(b) : b \in BalanceSet}, MaxAccounts)
  /\ inflows \in Optional({Inflow(Num(250000), K(now.day, 1), "fixed"),
                          Inflow(Num(250000), K(now.day, -1), "planned")})
  /\ orders \in {WithIds(o, OrderIds) :
                   o \in Optional({Order(Num(400000), JsNull, "false", 0, K(now.day, 3), "RUB")})}
  /\ expenses = <<>>
  /\ settings = NoSettings

(* incoming payments *)
InflowRich(t) ==
  {Inflow(a, K(t, off), k) :
     a \in {Num(500000), Num(0), Num(-100000), JsNull, Str(<<"1", "2", ".", "5">>)},
     off \in {-3, -1, 0, 1, 8, 9}, k \in {"fixed", "planned"}}
InflowSmall(t) ==
  {Inflow(Num(500000), K(t, -1), "planned"), Inflow(Num(200000), K(t, -1), "fixed"),
   Inflow(Num(300000), K(t, 2), "planned"), Inflow(Num(300000), K(t, 0), "planned")}

InitInflows ==
  /\ now \in {Jan30, Jan31Leap}
  /\ horizonDays = 8
  /\ accounts = <<Account(Num(1000000))>>
  /\ inflows \in Optional(InflowRich(now.day)) \cup SeqsUpTo(InflowSmall(now.day), MaxInflows)
  /\ orders = <<>>
  /\ expenses = <<>>
  /\ settings = NoSettings

(* supplier orders *)
OrderRich(t) ==
  {Order(tot, dep, paid, dd, K(t, due), cur) :
     tot \in {Num(2000000), Num(800000), Num(500000), Num(0)},
     dep \in {Num(800000), Num(0), JsNull},
     paid \in {"true", "false", "undefined"},
     dd \in {0, K(t, 1)},
     due \in {1, 4},
     cur \in {"RUB", "CNY", "null", "USD"}}
OrderSmall(t) ==
  {Order(Num(2000000), Num(800000), "false", K(t, 1), K(t, 4), "CNY"),
   Order(Num(2000000), Num(800000), "true", K(t, 1), K(t, 4), "RUB"),
   Order(Num(800000), Num(800000), "false", 0, K(t, 2), "RUB"),
   Order(Num(300000), Num(0), "false", K(t, 1), K(t, 1), "RUB")}
SettingsSet ==
  {NoSettings, Settings(Num(2000)), Settings(Num(500)), Settings(Num(0)),
   Settings(Num(-3000)), Settings(JsNaN), Settings(JsUndef)}

InitOrders ==
  /\ now = Jan30
  /\ horizonDays = 8
  /\ accounts = <<Account(Num(1000000))>>
  /\ inflows = <<>>
  /\ \/ /\ orders \in {WithIds(<<o>>, OrderIds) : o \in OrderRich(now.day)}
        /\ settings \in {NoSettings, Settings(Num(2000)), Settings(Num(500))}
     \/ /\ orders \in {WithIds(o, OrderIds) : o \in SeqsUpTo(OrderSmall(now.day), MaxOrders)}
        /\ settings \in SettingsSet
  /\ expenses = <<>>

(* planned expenses *)
ExpenseRich ==
  {Expense(Num(1000000), ap, as, dp, ds) :
     ap \in {JsNull, Num(300000), Num(0), Num(1500000)},
     as \in {JsUndef, Num(400000), Num(0)},
     dp \in {Num(31000), Num(29000), Num(15700), Num(0), JsNull, Str(<<"3", "0">>), Num(32000)},
     ds \in {JsNull, Num(30000), Num(40000), Str(<<"x">>), Num(5000)}}
ExpenseSmall ==
  {Expense(Num(1000000), JsNull, JsNull, Num(31000), JsNull),
   Expense(Num(600000), Num(200000), JsNull, Num(1000), Num(31000)),
   Expense(Num(500000), JsNull, Num(200000), Num(15000), Num(20000)),
   Expense(Num(0), JsNull, JsNull, Num(10000), JsNull)}

\* an expense with an unusable day next to a sound one
ExpensePairs ==
  {<<Expense(Num(400000), JsNull, JsNull, d, JsNull),
     Expense(Num(100000), JsNull, JsNull, Num(31000), JsNull)>> :
       d \in {JsNull, JsUndef, Str(<<>>), Str(<<"x">>), Num(0), Num(32000), JsNaN}}
  \cup
  {<<Expense(Num(400000), Num(150000), Num(250000), Num(31000), d),
     Expense(Num(100000), JsNull, JsNull, Num(5000), JsNull)>> :
       d \in {Str(<<"x">>), Num(0), Num(40000)}}

InitExpenses ==
  /\ now \in {Jan30, Jan31Leap, Mar31, Dec20}
  /\ horizonDays = 35
  /\ accounts = <<Account(Num(1000000))>>
  /\ inflows = <<>>
  /\ orders = <<>>
  /\ expenses \in {WithIds(e, ExpenseIds) :
                     e \in Optional(ExpenseRich) \cup SeqsUpTo(ExpenseSmall, MaxExpenses)
                          \cup ExpensePairs}
  /\ settings = NoSettings

(* records with amounts that are missing or not numbers *)
MalformedSet == {JsNull, JsUndef, Str(<<>>), Str(<<"a", "b">>)}

InitMalformed ==
  /\ now = Jan30
  /\ horizonDays = 8
  /\ settings = NoSettings
  /\ \E m \in MalformedSet :
       /\ accounts \in {<<Account(m), Account(Num(1000000))>>, <<Account(m)>>}
       /\ inflows \in Optional({Inflow(m, K(now.day, 2), "fixed"),
                                Inflow(m, K(now.day, 3), "planned")})
       /\ orders \in {WithIds(o, OrderIds) :
                        o \in Optional({Order(Num(500000), m, "false", 0, K(now.day, 4), "RUB"),
                                        Order(m, Num(100000), "false", 0, K(now.day, 4), "RUB"),
                                        Order(m, m, "false", 0, K(now.day, 4), "CNY")})}
       /\ expenses \in {WithIds(e, ExpenseIds) :
                          e \in Optional({Expense(m, JsNull, JsNull, Num(31000), JsNull),
                                          Expense(Num(300000), m, m, Num(31000), JsNull)})}

(* a plan that the page builds twice from the same records *)
InitRerun ==
  /\ now = Jan30
  /\ horizonDays \in {3, 8}
  /\ accounts = <<Account(Num(1000000))>>
  /\ inflows \in Optional({Inflow(Num(250005), K(now.day, 4), "fixed"),
                           Inflow(Num(100000), K(now.day, 2), "fixed")})
  /\ orders \in {WithIds(o, OrderIds) : o \in SeqsUpTo(OrderSmall(now.day), MaxOrders)}
  /\ expenses = <<>>
  /\ settings \in {NoSettings, Settings(Num(2000))}

(* the page's plan and an order submitted for an impact check *)
CandidateSet(t) ==
  {Candidate(Num(0), Num(0), "false", K(t, 3), K(t, 6), "RUB"),
   Candidate(Num(0), Num(0), "true", 0, K(t, 6), "CNY"),
   Candidate(Num(1500000), Num(500000), "false", K(t, 3), K(t, 12), "RUB"),
   Candidate(Num(200000), Num(0), "false", 0, K(t, 8), "CNY"),
   Candidate(Num(900000), Num(900000), "false", 0, K(t, 8), "RUB"),
   Candidate(Num(400000), Num(100000), "false", K(t, -3), K(t, 40), "RUB"),
   Candidate(Num(400000), Num(0), "false", 0, K(t, 130), "RUB"),
   Candidate(Num(100000), Num(-100000), "false", 0, K(t, 8), "RUB")}

InitImpact ==
  /\ now = Jan30
  /\ horizonDays = HorizonDefault
  /\ accounts \in {<<Account(Num(1000000))>>, <<Account(Num(300000))>>}
  /\ inflows \in Optional({Inflow(Num(500000), K(now.day, 10), "fixed")})
  /\ orders \in {WithIds(o, OrderIds) :
                   o \in Optional({Order(Num(700000), Num(100000), "false", 0,
                                         K(now.day, 25), "RUB")})}
  /\ expenses \in {WithIds(e, ExpenseIds) :
                     e \in Optional({Expense(Num(100000), JsNull, JsNull, Num(5000), JsNull)})}
  /\ settings \in {NoSettings, Settings(Num(2000))}
  /\ candidate \in Optional(CandidateSet(now.day))

(***************************************************************************)
(* The call buildCashPlan(accounts, inflows, orders, expenses, settings,   *)
(* horizonDays)                                                            *)
(***************************************************************************)
NoLoc ==
  [primaryDay |-> 0, secondaryDay |-> 0, primaryAmount |-> None, secondaryAmount |-> None,
   hasSplit |-> FALSE, cursor |-> Date(0, 0)]
NoWalk == [cursor |-> Date(0, 0), endDate |-> Date(0, 0), balance |-> 0, minBalance |-> 0]
NoPlan == [openingBalance |-> 0, daily |-> <<>>, minBalance |-> 0, cashGap |-> 0]

(***************************************************************************)
(* PUT /api/orders (src/app/api/orders/route.ts, lines 77-139) and the     *)
(* supplier_orders row it updates.  Instants are ticks of one clock; a     *)
(* timestamp string is identified by its instant.                          *)
(***************************************************************************)
Clients == {1, 2}

\* a timestamptz as the API serialises it
Stamp(t) == [t |-> "string", n |-> t, s |-> <<"T">>]

\* new Date().toISOString().slice(0, 10): the calendar date of an instant
DateString(t) == [t |-> "string", n |-> t, s |-> <<"D">>]

\* Number(x) for the amounts a request body carries: JSON numbers, null or
\* nothing at all
ToNumber(v) ==
  IF v.t = "undefined" THEN JsNaN
  ELSE IF v.t = "null" THEN Num(0)
  ELSE v

\* x || fallback
OrElse(v, fallback) == IF Falsy(v) THEN fallback ELSE v

\* the request body of a PUT, destructured
Body(id, title, total, deposit, due, cur, stamp) ==
  [id |-> id, supplier_id |-> JsUndef, title |-> title, total_amount |-> total,
   deposit_amount |-> deposit, deposit_paid |-> JsUndef, deposit_date |-> JsUndef,
   due_date |-> due, currency |-> cur, description |-> JsUndef, updated_at |-> stamp]

NoBody == Body(JsUndef, JsUndef, JsUndef, JsUndef, JsUndef, JsUndef, JsUndef)

\* the three early returns with status 400
PutRejects(b) ==
  \/ Falsy(b.id)
  \/ Falsy(b.title) \/ Falsy(b.total_amount) \/ Falsy(b.due_date)
  \/ Falsy(b.updated_at)

\* mutant: the row is matched by .eq('id', id) alone
MatchesIdOnly(r, b) == r.id = b.id

\* .eq('id', id).eq('updated_at', updated_at)
Matches(r, b) == r.id = b.id /\ r.updated_at = b.updated_at

\* .update({...}) applied to the row, and the before-update trigger
\* set_updated_at stamping it with now()
UpdatedRow(r, b, t) ==
  [id |-> r.id,
   supplier_id |-> OrElse(b.supplier_id, JsNull),
   title |-> b.title,
   total_amount |-> ToNumber(b.total_amount),
   deposit_amount |-> OrElse(ToNumber(b.deposit_amount), Num(0)),
   deposit_paid |-> ~Falsy(b.deposit_paid),
   deposit_date |-> OrElse(b.deposit_date, DateString(t)),
   due_date |-> b.due_date,
   description |-> b.description,
   currency |-> IF b.currency = Str(<<"C", "N", "Y">>) THEN "CNY" ELSE "RUB",
   updated_at |-> Stamp(t)]

\* the order row before any of the requests
StoredRow ==
  [id |-> Str(<<"o">>), supplier_id |-> JsNull, title |-> Str(<<"A">>),
   total_amount |-> Num(1000000), deposit_amount |-> Num(0), deposit_paid |-> FALSE,
   deposit_date |-> DateString(0), due_date |-> Str(<<"d">>), description |-> JsUndef,
   currency |-> "RUB", updated_at |-> Stamp(0)]

\* a client that has not opened the order yet
NoPut == [pc |-> "idle", seen |-> JsUndef, body |-> NoBody, status |-> 0, wrote |-> <<>>]

\* no request is under way
ApiIdle ==
  /\ row = StoredRow
  /\ clock = 0
  /\ puts = [c \in Clients |-> NoPut]

\* no call of lib/settings is under way
LibIdle ==
  /\ raw = RawNullish
  /\ ofCurrency = "RUB"
  /\ normalized = NoSettings
  /\ rate = JsUndef

Init ==
  /\ \/ (InitPlan \/ InitAccounts \/ InitInflows \/ InitOrders \/ InitExpenses
           \/ InitMalformed)
        /\ candidate = <<>>
        /\ rerun = FALSE
     \/ InitImpact /\ rerun = FALSE
     \/ InitRerun /\ candidate = <<>> /\ rerun = TRUE
  /\ previous = <<>>
  /\ engine = {}
  /\ LibIdle
  /\ ApiIdle
  /\ baseline = <<>>
  /\ impact = <<>>
  /\ projection = <<>>
  /\ pc = "collectEvents"
  /\ collected = <<>>
  /\ events = <<>>
  /\ ei = 0
  /\ loc = NoLoc
  /\ openingBalance = 0
  /\ walk = NoWalk
  /\ daily = <<>>
  /\ plan = NoPlan

\* collectExpenseEvents: today, horizonLimit, firstMonth, lastMonth
ExpToday        == startOfDay(now)
ExpHorizonLimit == addDays(ExpToday, horizonDays)
FirstMonth      == startOfMonth(ExpToday)
\* mutant: the month loop stops after the month of today
LastMonthOfToday == FirstMonth
LastMonth       == startOfMonth(ExpHorizonLimit)

\* collectEvents(accounts, inflows, orders, rates)
CollectEvents ==
  /\ pc = "collectEvents"
  /\ collected' = collectEvents(inflows, orders, Rates(settings), now)
  /\ ei' = 1
  /\ pc' = "expenses"
  /\ UNCHANGED <<engine, callers, lib, api, inputs, events, loc, openingBalance, walk, daily, plan>>

\* expenses.forEach: an expense that returns before its month loop
ExpenseSkip ==
  /\ pc = "expenses"
  /\ ei <= Len(expenses)
  /\ ReturnsEarly(ExpenseLocals(expenses[ei]))
  /\ ei' = ei + 1
  /\ UNCHANGED <<engine, callers, lib, api, inputs, pc, collected, events, loc, openingBalance, walk, daily, plan>>

\* expenses.forEach: an expense that reaches its month loop
ExpenseEnter ==
  /\ pc = "expenses"
  /\ ei <= Len(expenses)
  /\ ~ReturnsEarly(ExpenseLocals(expenses[ei]))
  /\ loc' = [ExpenseLocals(expenses[ei]) EXCEPT !.cursor = FirstMonth]
  /\ pc' = "months"
  /\ UNCHANGED <<engine, callers, lib, api, inputs, collected, events, ei, openingBalance, walk, daily, plan>>

\* one iteration of while (!isAfter(cursor, lastMonth))
MonthStep ==
  /\ pc = "months"
  /\ ~isAfter(loc.cursor, LastMonth)
  /\ collected' = collected \o MonthEvents(expenses[ei], loc, ExpToday, ExpHorizonLimit)
  /\ loc' = [loc EXCEPT !.cursor = addMonths(loc.cursor, 1)]
  /\ UNCHANGED <<engine, callers, lib, api, inputs, pc, events, ei, openingBalance, walk, daily, plan>>

\* the month loop ends: next expense
MonthsDone ==
  /\ pc = "months"
  /\ isAfter(loc.cursor, LastMonth)
  /\ ei' = ei + 1
  /\ pc' = "expenses"
  /\ UNCHANGED <<engine, callers, lib, api, inputs, collected, events, loc, openingBalance, walk, daily, plan>>

\* collectExpenseEvents returns; the merged array is sorted and the opening
\* balance summed
SortEvents ==
  /\ pc = "expenses"
  /\ ei > Len(expenses)
  /\ events' \in SortChoices(collected, engine)
  /\ engine' = engine \cup {<<collected, events'>>}
  /\ openingBalance' = SumBalances(accounts)
  /\ pc' = "sorted"
  /\ UNCHANGED <<callers, lib, api, inputs, collected, ei, loc, walk, daily, plan>>

\* if (events.length === 0) return {...}
ReturnEmpty ==
  /\ pc = "sorted"
  /\ Len(events) = 0
  /\ plan' = EmptyPlan(openingBalance)
  /\ pc' = "done"
  /\ UNCHANGED <<engine, callers, lib, api, inputs, collected, events, ei, loc, openingBalance, walk, daily>>

\* firstDate, lastEventDate, horizonLimit, endDate, cursor, balance, minBalance
WalkInit ==
  /\ pc = "sorted"
  /\ Len(events) # 0
  /\ LET firstDate     == parseISO(events[1].date)
         lastEventDate == parseISO(events[Len(events)].date)
         horizonLimit  == addDays(now, horizonDays)
     IN walk' = [cursor |-> firstDate, endDate |-> EndDate(lastEventDate, horizonLimit),
                 balance |-> openingBalance, minBalance |-> openingBalance]
  /\ daily' = <<>>
  /\ pc' = "walk"
  /\ UNCHANGED <<engine, callers, lib, api, inputs, collected, events, ei, loc, openingBalance, plan>>

\* one iteration of while (!isAfter(cursor, endDate))
DayStep ==
  /\ pc = "walk"
  /\ ~isAfter(walk.cursor, walk.endDate)
  /\ LET dateKey      == toDateKeyOfDate(walk.cursor)
         todaysEvents == EventsOn(events, dateKey)
         balance      == BalanceAfter(walk.balance, todaysEvents)
     IN /\ walk' = [walk EXCEPT !.balance = balance,
                                !.minBalance = NextMinBalance(walk.minBalance, balance),
                                !.cursor = addDays(walk.cursor, 1)]
        /\ daily' = IF Len(todaysEvents) > 0
                    THEN Append(daily, DailyStat(dateKey, balance, todaysEvents))
                    ELSE daily
  /\ UNCHANGED <<engine, callers, lib, api, inputs, pc, collected, events, ei, loc, openingBalance, plan>>

\* the walk ends: return {openingBalance, daily, minBalance, cashGap}
ReturnPlan ==
  /\ pc = "walk"
  /\ isAfter(walk.cursor, walk.endDate)
  /\ plan' = WalkedPlan(openingBalance, daily, walk.minBalance)
  /\ pc' = "done"
  /\ UNCHANGED <<engine, callers, lib, api, inputs, collected, events, ei, loc, openingBalance, walk, daily>>

\* the dates asked of projectBalanceOnDate, in days from today
TargetOffsets == {-2, 1, 5, 7, 10, 20, 45}

\* the page: projectBalanceOnDate(plan, targetDate) on the plan it built
ProjectBalanceOnDate ==
  /\ pc = "done"
  /\ baseline = <<>>
  /\ \E off \in TargetOffsets :
       projection' = <<[target |-> K(now.day, off),
                        balance |-> projectBalanceOnDate(plan, K(now.day, off))]>>
  /\ pc' = "projected"
  /\ UNCHANGED <<engine, rerun, previous, inputs, lib, api, candidate, baseline, impact,
                 collected, events, ei, loc, openingBalance, walk, daily, plan>>

\* evaluateOrderImpact(accounts, inflows, orders, expenses, candidate,
\* settings) on the records of the page's plan: the inner call of
\* buildCashPlan starts with the orders extended and the default horizon
EvaluateOrderImpact ==
  /\ pc = "done"
  /\ candidate # <<>>
  /\ baseline = <<>>
  /\ baseline' = <<[orders |-> CallerOrders(orders, PlaceholderOrder(candidate[1])),
                    plan |-> plan]>>
  /\ orders' = ImpactOrders(orders, PlaceholderOrder(candidate[1]))
  /\ horizonDays' = HorizonDefault
  /\ pc' = "collectEvents"
  /\ collected' = <<>>
  /\ events' = <<>>
  /\ ei' = 0
  /\ loc' = NoLoc
  /\ openingBalance' = 0
  /\ walk' = NoWalk
  /\ daily' = <<>>
  /\ plan' = NoPlan
  /\ UNCHANGED <<engine, rerun, previous, lib, api, accounts, inflows, expenses, settings, now, candidate,
                 impact, projection>>

\* evaluateOrderImpact returns { ok, minBalance, cashGap } of the inner plan
ReturnImpact ==
  /\ pc = "done"
  /\ baseline # <<>>
  /\ impact' = <<OrderImpact(plan)>>
  /\ pc' = "returned"
  /\ UNCHANGED <<engine, rerun, previous, inputs, lib, api, candidate, baseline, projection,
                 collected, events, ei, loc, openingBalance, walk, daily, plan>>

\* the page builds its plan again from the same records, at the same time
BuildAgain ==
  /\ pc = "done"
  /\ rerun
  /\ previous = <<>>
  /\ baseline = <<>>
  /\ previous' = <<plan>>
  /\ pc' = "collectEvents"
  /\ collected' = <<>>
  /\ events' = <<>>
  /\ ei' = 0
  /\ loc' = NoLoc
  /\ openingBalance' = 0
  /\ walk' = NoWalk
  /\ daily' = <<>>
  /\ plan' = NoPlan
  /\ UNCHANGED <<engine, rerun, inputs, lib, api, candidate, baseline, impact, projection>>

Next ==
  \/ BuildAgain
  \/ ProjectBalanceOnDate
  \/ EvaluateOrderImpact
  \/ ReturnImpact
  \/ CollectEvents
  \/ ExpenseSkip
  \/ ExpenseEnter
  \/ MonthStep
  \/ MonthsDone
  \/ SortEvents
  \/ ReturnEmpty
  \/ WalkInit
  \/ DayStep
  \/ ReturnPlan

Spec == Init /\ [][Next]_vars

\* one call of buildCashPlan is synchronous: once entered, its statements
\* run one after another until it returns
BuildCashPlanRuns ==
  \/ CollectEvents
  \/ ExpenseSkip
  \/ ExpenseEnter
  \/ MonthStep
  \/ MonthsDone
  \/ SortEvents
  \/ ReturnEmpty
  \/ WalkInit
  \/ DayStep
  \/ ReturnPlan

\* calls of buildCashPlan with events before, within and beyond horizons
\* of zero days, of one month and of four
InitTerm ==
  /\ now \in {Jan30, Dec20}
  /\ horizonDays \in {0, 35, HorizonDefault}
  /\ accounts = <<Account(Num(1000000))>>
  /\ inflows \in Optional({Inflow(Num(300000), K(now.day, -2), "fixed"),
                           Inflow(Num(500000), K(now.day, 10), "fixed"),
                           Inflow(Num(500000), K(now.day, 200), "planned")})
  /\ orders \in {WithIds(o, OrderIds) :
                   o \in Optional({Order(Num(700000), Num(100000), "false", K(now.day, 3),
                                         K(now.day, 25), "RUB"),
                                   Order(Num(700000), Num(0), "false", 0, K(now.day, 150),
                                         "RUB")})}
  /\ expenses \in {WithIds(e, ExpenseIds) :
                     e \in Optional({Expense(Num(100000), JsNull, JsNull, Num(5000), JsNull),
                                     Expense(Num(100000), JsNull, JsNull, Num(40000), JsNull),
                                     Expense(Num(900000), Num(300000), JsNull, Num(31000),
                                             Num(10000))})}
  /\ settings = NoSettings
  /\ candidate = <<>>
  /\ rerun = FALSE
  /\ previous = <<>>
  /\ engine = {}
  /\ LibIdle
  /\ ApiIdle
  /\ baseline = <<>>
  /\ impact = <<>>
  /\ projection = <<>>
  /\ pc = "collectEvents"
  /\ collected = <<>>
  /\ events = <<>>
  /\ ei = 0
  /\ loc = NoLoc
  /\ openingBalance = 0
  /\ walk = NoWalk
  /\ daily = <<>>
  /\ plan = NoPlan

TermSpec == InitTerm /\ [][BuildCashPlanRuns]_vars /\ WF_vars(BuildCashPlanRuns)

(***************************************************************************)
(* The calls of lib/settings: normalizeSettings(raw), then                 *)
(* currencyRate(currency, settings)                                        *)
(***************************************************************************)
\* no plan is being built
PlanIdle ==
  /\ accounts = <<>> /\ inflows = <<>> /\ orders = <<>> /\ expenses = <<>>
  /\ horizonDays = HorizonDefault
  /\ now = Jan30
  /\ collected = <<>> /\ events = <<>> /\ ei = 0 /\ loc = NoLoc
  /\ openingBalance = 0 /\ walk = NoWalk /\ daily = <<>> /\ plan = NoPlan
  /\ candidate = <<>> /\ baseline = <<>> /\ impact = <<>> /\ projection = <<>>
  /\ rerun = FALSE /\ previous = <<>> /\ engine = {}

\* cnyRate values of a raw settings object, numbers in hundred-thousandths
RawRates ==
  {JsUndef, JsNull, JsNaN, JsInf(1), JsInf(-1),
   Num(0), Num(-250000), Num(100000), Num(725000), Num(1234567), Num(1234565),
   Num(4), Num(5), Num(14),
   Str(<<>>), Str(<<"7", ".", "2", "5">>), Str(<<"a", "b">>), Str(<<"7", "x">>),
   Str(<<"-", "3">>), Str(<<"0", ".", "0", "0", "0", "0", "4">>)}

RawSet == {RawNullish} \cup {RawObject(r) : r \in RawRates} \cup {RawRow(r) : r \in RawRates}

\* the settings argument of currencyRate, numbers in thousandths
SettingsArgs ==
  {NoSettings, Settings(JsUndef), Settings(JsNaN), Settings(JsInf(1)), Settings(JsInf(-1)),
   Settings(Num(0)), Settings(Num(-3000)), Settings(Num(1000)), Settings(Num(2000)),
   Settings(Num(500)), Settings(Num(12345))}

InitSettings ==
  /\ PlanIdle
  /\ ApiIdle
  /\ pc = "normalizeSettings"
  /\ raw \in RawSet
  /\ settings \in SettingsArgs
  /\ ofCurrency \in {"RUB", "CNY"}
  /\ normalized = NoSettings
  /\ rate = JsUndef

NormalizeSettings ==
  /\ pc = "normalizeSettings"
  /\ normalized' = normalizeSettings(raw)
  /\ pc' = "currencyRate"
  /\ UNCHANGED <<engine, inputs, callers, api, raw, ofCurrency, rate,
                 collected, events, ei, loc, openingBalance, walk, daily, plan>>

CurrencyRate ==
  /\ pc = "currencyRate"
  /\ rate' = currencyRate(ofCurrency, settings)
  /\ pc' = "settled"
  /\ UNCHANGED <<engine, inputs, callers, api, raw, ofCurrency, normalized,
                 collected, events, ei, loc, openingBalance, walk, daily, plan>>

NextSettings ==
  \/ NormalizeSettings
  \/ CurrencyRate

SettingsSpec == InitSettings /\ [][NextSettings]_vars

(***************************************************************************)
(* The clients of PUT /api/orders: each opens the order, edits it and      *)
(* sends one PUT; the handler validates the body, then runs its one        *)
(* UPDATE statement                                                        *)
(***************************************************************************)
\* the bodies a client may send for the row it has seen
EditsOf(r) ==
  {Body(r.id, Str(<<"B">>), Num(2000000), Num(500000), r.due_date, Str(<<"C", "N", "Y">>),
        r.updated_at),
   Body(r.id, Str(<<"C">>), Num(3000000), JsUndef, r.due_date, JsUndef, r.updated_at),
   Body(r.id, Str(<<"B">>), Num(2000000), JsUndef, r.due_date, JsUndef, JsUndef),
   Body(r.id, Str(<<"B">>), Num(2000000), JsUndef, r.due_date, JsUndef, Str(<<>>)),
   Body(JsUndef, Str(<<"B">>), Num(2000000), JsUndef, r.due_date, JsUndef, r.updated_at),
   Body(r.id, Str(<<>>), Num(2000000), JsUndef, r.due_date, JsUndef, r.updated_at),
   Body(r.id, Str(<<"B">>), Num(0), JsUndef, r.due_date, JsUndef, r.updated_at),
   Body(r.id, Str(<<"B">>), Num(2000000), JsUndef, JsUndef, JsUndef, r.updated_at)}

InitPut ==
  /\ PlanIdle
  /\ LibIdle
  /\ ApiIdle
  /\ settings = NoSettings
  /\ pc = "PUT"

\* the page loads the order: the client sees the row as it is stored
Open(c) ==
  /\ puts[c].pc = "idle"
  /\ puts' = [puts EXCEPT ![c] = [@ EXCEPT !.pc = "editing", !.seen = row]]
  /\ UNCHANGED <<row, clock, pc, engine, inputs, callers, lib,
                 collected, events, ei, loc, openingBalance, walk, daily, plan>>

\* the client sends its PUT; the round trip between reading the row and
\* the request reaching the handler takes time
Submit(c) ==
  /\ puts[c].pc = "editing"
  /\ \E b \in EditsOf(puts[c].seen) :
       puts' = [puts EXCEPT ![c] = [@ EXCEPT !.pc = "PUT", !.body = b]]
  /\ clock' = clock + 1
  /\ UNCHANGED <<row, pc, engine, inputs, callers, lib,
                 collected, events, ei, loc, openingBalance, walk, daily, plan>>

\* PUT, up to the database call: the three early returns
PutValidate(c) ==
  /\ puts[c].pc = "PUT"
  /\ puts' = [puts EXCEPT ![c] =
                IF PutRejects(@.body)
                THEN [@ EXCEPT !.pc = "responded", !.status = 400]
                ELSE [@ EXCEPT !.pc = "update"]]
  /\ UNCHANGED <<row, clock, pc, engine, inputs, callers, lib,
                 collected, events, ei, loc, openingBalance, walk, daily, plan>>

\* PUT, the UPDATE statement and the response: 500 on a database error,
\* 409 when no row matched, the updated row otherwise
PutUpdate(c) ==
  /\ puts[c].pc = "update"
  /\ \/ /\ puts' = [puts EXCEPT ![c] = [@ EXCEPT !.pc = "responded", !.status = 500]]
        /\ row' = row
     \/ /\ Matches(row, puts[c].body)
        /\ row' = UpdatedRow(row, puts[c].body, clock)
        /\ puts' = [puts EXCEPT ![c] =
                      [@ EXCEPT !.pc = "responded", !.status = 200, !.wrote = <<row'>>]]
     \/ /\ ~Matches(row, puts[c].body)
        /\ row' = row
        /\ puts' = [puts EXCEPT ![c] = [@ EXCEPT !.pc = "responded", !.status = 409]]
  /\ UNCHANGED <<clock, pc, engine, inputs, callers, lib,
                 collected, events, ei, loc, openingBalance, walk, daily, plan>>

NextPut ==
  \E c \in Clients :
    \/ Open(c)
    \/ Submit(c)
    \/ PutValidate(c)
    \/ PutUpdate(c)

PutSpec == InitPut /\ [][NextPut]_vars

(***************************************************************************)
(* Properties                                                              *)
(***************************************************************************)
Done == pc = "done"

Max(a, b) == IF a > b THEN a ELSE b

\* the hundredth nearest to x (x in thousandths), the one farther from zero
\* when x lies halfway
Round2(x) ==
  LET lo == (x \div 10) * 10
      hi == lo + 10
  IN IF x - lo < hi - x THEN lo
     ELSE IF x - lo > hi - x THEN hi
     ELSE IF x >= 0 THEN hi ELSE lo

\* sum of the amounts of the events of evs dated from lo to hi
RECURSIVE AmountBetween(_, _, _)
AmountBetween(evs, lo, hi) ==
  IF evs = <<>> THEN 0
  ELSE (IF lo <= Head(evs).date /\ Head(evs).date <= hi THEN Head(evs).amount ELSE 0)
       + AmountBetween(Tail(evs), lo, hi)

\* the ISO string of today and of today + horizonDays
TodayKey == K(now.day, 0)
HorizonKey == K(now.day, horizonDays)

\* the first and last day of the window walked by buildCashPlan
WindowStart == events[1].date
WindowEnd == IF events[Len(events)].date > HorizonKey THEN HorizonKey
             ELSE events[Len(events)].date

\* the running balance after the events of the day dateKey
RunningBalance(dateKey) == openingBalance + AmountBetween(events, WindowStart, dateKey)

\* C1: each DailyStat's balance is the opening balance (the sum of the account
\* balances) plus the amounts of all events dated from the window start up to
\* and including its date, rounded to 2 decimals
C1_DailyBalance ==
  (Done /\ events # <<>>) =>
    \A i \in 1..Len(plan.daily) :
      plan.daily[i].balance = Round2(RunningBalance(plan.daily[i].date))

\* C1 witness: the scenario opening 1000, -800 on day+5, +500 on day+10,
\* -1200 on day+20 gives the balances 200, 700, -500
C1_Witness ==
  /\ Done
  /\ openingBalance = 1000000
  /\ Len(plan.daily) = 3
  /\ plan.daily[1].date = K(now.day, 5) /\ plan.daily[1].balance = 200000
  /\ plan.daily[2].date = K(now.day, 10) /\ plan.daily[2].balance = 700000
  /\ plan.daily[3].date = K(now.day, 20) /\ plan.daily[3].balance = -500000
  /\ plan.minBalance = -500000 /\ plan.cashGap = 500000

\* the days (ISO strings) of the window, from the earliest event to the end
WindowKeys ==
  {K(d, 0) : d \in parseISO(WindowStart).day .. parseISO(WindowEnd).day}

\* the least element of a non-empty set of integers
Least(S) == CHOOSE x \in S : \A y \in S : x <= y

\* C2 as stated: minBalance is the minimum over every day of the window of the
\* running balance after that day's events, rounded to 2 decimals
C2_MinOverDays ==
  (Done /\ events # <<>> /\ WindowKeys # {}) =>
    plan.minBalance = Round2(Least({RunningBalance(k) : k \in WindowKeys}))

\* C2 amended: minBalance is the minimum of the opening balance and of the
\* running balance after each day of the window, rounded to 2 decimals
C2_MinWithOpening ==
  (Done /\ events # <<>>) =>
    plan.minBalance =
      Round2(Least({openingBalance} \cup {RunningBalance(k) : k \in WindowKeys}))

\* C2 witness: a finished plan whose window holds a day without events and
\* whose minimum lies below the opening balance
C2_Witness ==
  /\ Done
  /\ events # <<>>
  /\ Cardinality(WindowKeys) > Len(plan.daily)
  /\ plan.minBalance < Round2(openingBalance)

\* C3: cashGap >= 0, cashGap = max(0, -minBalance), and cashGap = 0 exactly
\* when minBalance >= 0, for every plan returned (with or without events)
C3_CashGap ==
  Done =>
    /\ plan.cashGap >= 0
    /\ plan.cashGap = Max(0, -plan.minBalance)
    /\ (plan.cashGap = 0 <=> plan.minBalance >= 0)

\* C3 witness: a plan with events whose minimum balance is negative and not a
\* whole number of hundredths before rounding
C3_Witness ==
  /\ Done
  /\ plan.daily # <<>>
  /\ plan.cashGap > 0
  /\ walk.minBalance % 10 # 0

(***************************************************************************)
(* Properties of the collected events.  collected holds the result of      *)
(* collectEvents as soon as pc has left "collectEvents".                   *)
(***************************************************************************)
Collected == pc # "collectEvents"

\* the events of collected that carry the id as source
EventsOf(id) == SelectSeq(collected, LAMBDA e : e.source = id)
DepositsOf(id) == SelectSeq(collected, LAMBDA e : e.source = id /\ e.description = "deposit")
RemaindersOf(id) ==
  SelectSeq(collected, LAMBDA e : e.source = id /\ e.description = "remainder")

\* an order as the SupplierOrder type describes it: numeric amounts, a
\* currency RUB or CNY
TypedOrder(o) ==
  /\ o.total_amount.t = "number"
  /\ o.deposit_amount.t = "number"
  /\ o.currency \in {"RUB", "CNY"}

\* the rate of the order's currency: 1 for RUB, the resolved cnyRate for CNY
RateOf(o) ==
  IF o.currency = "CNY"
  THEN (IF settings.present /\ settings.cnyRate.t = "number" /\ settings.cnyRate.n > 0
        THEN settings.cnyRate.n ELSE 1000)
  ELSE 1000

ConvertedDeposit(o) == Mul(o.deposit_amount.n, RateOf(o))
ConvertedRemainder(o) == Mul(o.total_amount.n, RateOf(o)) - ConvertedDeposit(o)

\* C4: an order with deposit_paid = true and deposit_amount > 0 has no deposit
\* event; the only event carrying its id is the remainder event, present only
\* when the remainder is > 0
C4_PaidDepositExcluded ==
  Collected =>
    \A i \in 1..Len(orders) :
      LET o == orders[i] IN
      (TypedOrder(o) /\ o.deposit_paid = "true" /\ o.deposit_amount.n > 0) =>
        /\ DepositsOf(o.id) = <<>>
        /\ EventsOf(o.id) = RemaindersOf(o.id)
        /\ Len(EventsOf(o.id)) <= 1
        /\ (EventsOf(o.id) # <<>> => ConvertedRemainder(o) > 0)

\* C4 witness: a paid deposit of 800 on a total of 2000, whose only event is
\* the remainder of 1200
C4_Witness ==
  /\ Collected
  /\ \E i \in 1..Len(orders) :
       /\ orders[i].deposit_paid = "true"
       /\ orders[i].deposit_amount = Num(800000)
       /\ orders[i].currency = "RUB"
       /\ Len(EventsOf(orders[i].id)) = 1
       /\ EventsOf(orders[i].id)[1].amount = -1200000

\* C5: an order whose deposit is not paid and whose converted deposit is > 0
\* has exactly one deposit event: an outflow of -(deposit_amount x rate), dated
\* at deposit_date (today when deposit_date is missing), with source = its id
C5_UnpaidDepositEvent ==
  Collected =>
    \A i \in 1..Len(orders) :
      LET o == orders[i] IN
      (TypedOrder(o) /\ o.deposit_paid # "true" /\ ConvertedDeposit(o) > 0) =>
        /\ Len(DepositsOf(o.id)) = 1
        /\ DepositsOf(o.id)[1].amount = -ConvertedDeposit(o)
        /\ DepositsOf(o.id)[1].type = "outflow"
        /\ DepositsOf(o.id)[1].date =
             (IF o.deposit_date = 0 THEN TodayKey ELSE o.deposit_date)

\* C5 witness: a deposit of 800 CNY at cnyRate 2 gives an event of -1600
C5_Witness ==
  /\ Collected
  /\ settings = Settings(Num(2000))
  /\ \E i \in 1..Len(orders) :
       /\ orders[i].currency = "CNY"
       /\ orders[i].deposit_amount = Num(800000)
       /\ DepositsOf(orders[i].id) # <<>>
       /\ DepositsOf(orders[i].id)[1].amount = -1600000

\* C6: the remainder is total_amount x rate - deposit_amount x rate whether or
\* not the deposit is paid; there is one remainder event of -remainder at
\* due_date when remainder > 0 and none otherwise; an order has at most two
\* events
C6_RemainderEvent ==
  Collected =>
    \A i \in 1..Len(orders) :
      LET o == orders[i] IN
      TypedOrder(o) =>
        /\ Len(RemaindersOf(o.id)) = (IF ConvertedRemainder(o) > 0 THEN 1 ELSE 0)
        /\ \A j \in 1..Len(RemaindersOf(o.id)) :
             /\ RemaindersOf(o.id)[j].amount = -ConvertedRemainder(o)
             /\ RemaindersOf(o.id)[j].date = o.due_date
             /\ RemaindersOf(o.id)[j].type = "outflow"
        /\ Len(EventsOf(o.id)) <= 2

\* C6 witness: a fully paid order (total = deposit) without remainder event,
\* next to an order with deposit and remainder events
C6_Witness ==
  /\ Collected
  /\ \E i, j \in 1..Len(orders) :
       /\ TypedOrder(orders[i]) /\ TypedOrder(orders[j])
       /\ orders[i].total_amount = orders[i].deposit_amount
       /\ orders[i].total_amount.n > 0
       /\ RemaindersOf(orders[i].id) = <<>>
       /\ Len(EventsOf(orders[j].id)) = 2

\* the incoming payments that are not stale planned ones
IsKept(f) == f.kind = "fixed" \/ ~(f.expected_date < TodayKey)
KeptInflows == SelectSeq(inflows, IsKept)
InflowEventsCollected == SelectSeq(collected, LAMBDA e : e.type = "inflow")

\* C7: a planned payment dated before today produces no event and reaches no
\* DailyStat; every fixed payment and every planned payment dated today or
\* later produces exactly one inflow event of its amount at expected_date
C7_StalePlannedDropped ==
  /\ Collected =>
       /\ Len(InflowEventsCollected) = Len(KeptInflows)
       /\ \A i \in 1..Len(KeptInflows) :
            /\ i <= Len(InflowEventsCollected)
            /\ InflowEventsCollected[i].date = KeptInflows[i].expected_date
            /\ InflowEventsCollected[i].description =
                 (IF KeptInflows[i].kind = "fixed" THEN "inflow-fixed" ELSE "inflow-planned")
            /\ KeptInflows[i].amount.t = "number" =>
                 InflowEventsCollected[i].amount = KeptInflows[i].amount.n
  /\ \A i \in 1..Len(plan.daily) : \A j \in 1..Len(plan.daily[i].events) :
       plan.daily[i].events[j].description = "inflow-planned" =>
         plan.daily[i].events[j].date >= TodayKey

\* C7 witness: a stale planned payment dropped next to a kept fixed payment
\* of the same past date, and the plan finished
C7_Witness ==
  /\ Done
  /\ \E i, j \in 1..Len(inflows) :
       /\ inflows[i].kind = "planned" /\ inflows[i].expected_date < TodayKey
       /\ inflows[j].kind = "fixed" /\ inflows[j].expected_date < TodayKey
  /\ Len(InflowEventsCollected) = 1
  /\ plan.daily # <<>>

(***************************************************************************)
(* Properties of the expense events.  The events of an expense are added   *)
(* to collected month by month; collected is complete once pc has left the *)
(* expense loop.                                                           *)
(***************************************************************************)
Expanded == pc \in {"sorted", "walk", "done"}

IsPrimaryEvent(e) == e.description \in {"expense", "expense-1/2"}
IsSecondaryEvent(e) == e.description = "expense-2/2"

PrimaryEventsOf(id) == SelectSeq(collected, LAMBDA e : e.source = id /\ IsPrimaryEvent(e))
SecondaryEventsOf(id) == SelectSeq(collected, LAMBDA e : e.source = id /\ IsSecondaryEvent(e))

HasValidSecondaryDay(x) == normalizeDay(x.day_secondary) # 0
IsNumber(v) == v.t = "number"

OnlyPrimaryGiven(x) == IsNumber(x.amount_primary) /\ ~Provided(x.amount_secondary)
OnlySecondaryGiven(x) == IsNumber(x.amount_secondary) /\ ~Provided(x.amount_primary)

\* C8: with a valid day_secondary and exactly one split amount given, the
\* other part is the total minus the given one: every secondary event is
\* -(amount - amount_primary) when only amount_primary is given, every primary
\* event is -(amount - amount_secondary) when only amount_secondary is given
C8_SplitReconciliation ==
  \A i \in 1..Len(expenses) :
    LET x == expenses[i] IN
    (HasValidSecondaryDay(x) /\ IsNumber(x.amount)) =>
      /\ OnlyPrimaryGiven(x) =>
           \A j \in 1..Len(SecondaryEventsOf(x.id)) :
             SecondaryEventsOf(x.id)[j].amount = -(x.amount.n - x.amount_primary.n)
      /\ OnlySecondaryGiven(x) =>
           \A j \in 1..Len(PrimaryEventsOf(x.id)) :
             PrimaryEventsOf(x.id)[j].amount = -(x.amount.n - x.amount_secondary.n)

\* C8 witness: two split expenses expanded, one with only amount_primary and
\* a secondary event, one with only amount_secondary and a primary event
C8_Witness ==
  /\ Expanded
  /\ \E i, j \in 1..Len(expenses) :
       /\ HasValidSecondaryDay(expenses[i]) /\ OnlyPrimaryGiven(expenses[i])
       /\ SecondaryEventsOf(expenses[i].id) # <<>>
       /\ HasValidSecondaryDay(expenses[j]) /\ OnlySecondaryGiven(expenses[j])
       /\ PrimaryEventsOf(expenses[j].id) # <<>>

\* the civil calendar, stated on its own: the length of month m of year y
IsLeapYear(y) == (y % 4 = 0 /\ y % 100 # 0) \/ y % 400 = 0
DaysIn(y, m) ==
  IF m \in {4, 6, 9, 11} THEN 30
  ELSE IF m = 2 THEN (IF IsLeapYear(y) THEN 29 ELSE 28)
  ELSE 31

YearOfKey(k) == k \div 10000
MonthOfKey(k) == (k \div 100) % 100
DayOfKey(k) == k % 100

\* the occurrence of the day of the month in the month of index idx (12 * y +
\* m - 1): day min(day, length of the month) of that month
ClampedKey(idx, day) ==
  (idx \div 12) * 10000 + ((idx % 12) + 1) * 100 + Min(day, DaysIn(idx \div 12, (idx % 12) + 1))

MonthIndexOfKey(k) == YearOfKey(k) * 12 + MonthOfKey(k) - 1

\* an expense without split amounts: its primary part is its whole amount
PlainExpense(x) ==
  /\ IsNumber(x.amount) /\ x.amount.n > 0
  /\ ~Provided(x.amount_primary) /\ ~Provided(x.amount_secondary)

\* C9: the occurrence of a day of the month is day min(day, days of the month)
\* of that same month, for the primary and for the secondary day: it is never
\* moved to the following month, and never skipped because the day does not
\* exist
C9_DayClamping ==
  /\ \A i \in 1..Len(expenses) :
       LET x == expenses[i] IN
       /\ \A j \in 1..Len(PrimaryEventsOf(x.id)) :
            PrimaryEventsOf(x.id)[j].date =
              ClampedKey(MonthIndexOfKey(PrimaryEventsOf(x.id)[j].date),
                         normalizeDay(x.day_primary))
       /\ \A j \in 1..Len(SecondaryEventsOf(x.id)) :
            SecondaryEventsOf(x.id)[j].date =
              ClampedKey(MonthIndexOfKey(SecondaryEventsOf(x.id)[j].date),
                         normalizeDay(x.day_secondary))
  /\ Expanded =>
       \A i \in 1..Len(expenses) :
         LET x == expenses[i] IN
         (PlainExpense(x) /\ normalizeDay(x.day_primary) # 0) =>
           \A idx \in MonthIndexOfKey(TodayKey) .. MonthIndexOfKey(HorizonKey) :
             LET k == ClampedKey(idx, normalizeDay(x.day_primary)) IN
             (TodayKey <= k /\ k <= HorizonKey) =>
               \E j \in 1..Len(PrimaryEventsOf(x.id)) : PrimaryEventsOf(x.id)[j].date = k

\* C9 witness: a day_primary of 31 that gave an event on the last day of a
\* February
C9_Witness ==
  /\ Expanded
  /\ \E i \in 1..Len(expenses) :
       /\ normalizeDay(expenses[i].day_primary) = 31
       /\ \E j \in 1..Len(PrimaryEventsOf(expenses[i].id)) :
            LET k == PrimaryEventsOf(expenses[i].id)[j].date IN
            MonthOfKey(k) = 2 /\ DayOfKey(k) = DaysIn(YearOfKey(k), 2)

\* C10 as stated: without a valid day_secondary every event of the expense is
\* a primary-day event of minus the full amount, whatever amount_primary and
\* amount_secondary hold
C10_FullAmountWithoutSplit ==
  \A i \in 1..Len(expenses) :
    LET x == expenses[i] IN
    (~HasValidSecondaryDay(x) /\ IsNumber(x.amount)) =>
      \A j \in 1..Len(EventsOf(x.id)) :
        /\ EventsOf(x.id)[j].description = "expense"
        /\ EventsOf(x.id)[j].amount = -x.amount.n

\* the dates of the events of evs that fall in the month of index idx
DatesInMonth(evs, idx) ==
  {evs[j].date : j \in {n \in 1..Len(evs) : MonthIndexOfKey(evs[n].date) = idx}}
CountInMonth(evs, idx) ==
  Cardinality({n \in 1..Len(evs) : MonthIndexOfKey(evs[n].date) = idx})

\* the months from the month of today through the month of today + horizonDays
HorizonMonths == MonthIndexOfKey(TodayKey) .. MonthIndexOfKey(HorizonKey)

WithinHorizon(k) == TodayKey <= k /\ k <= HorizonKey

\* the events of one part of an expense follow the window rule: in each month
\* of the horizon there is an event exactly when the clamped date lies from
\* today to today + horizonDays, and then it is the only one of that month
PartFollowsWindow(evs, day) ==
  \A idx \in HorizonMonths :
    /\ (ClampedKey(idx, day) \in DatesInMonth(evs, idx)) <=> WithinHorizon(ClampedKey(idx, day))
    /\ CountInMonth(evs, idx) <= 1

\* C11: for an expense with a valid day_primary, the primary part (amount > 0)
\* has an event in a month of the horizon exactly when its clamped date d has
\* today <= d <= today + horizonDays, and likewise the secondary part (valid
\* day_secondary, amount > 0); no expense event is dated before today or after
\* today + horizonDays, and a month holds at most one event of each part
C11_HorizonWindow ==
  Expanded =>
    \A i \in 1..Len(expenses) :
      LET x == expenses[i]
          l == ExpenseLocals(x)
      IN /\ (l.primaryDay # 0 /\ OrZero(l.primaryAmount) > 0) =>
              PartFollowsWindow(PrimaryEventsOf(x.id), l.primaryDay)
         /\ (l.primaryDay # 0 /\ l.secondaryDay # 0 /\ OrZero(l.secondaryAmount) > 0) =>
              PartFollowsWindow(SecondaryEventsOf(x.id), l.secondaryDay)
         /\ \A j \in 1..Len(EventsOf(x.id)) : WithinHorizon(EventsOf(x.id)[j].date)
         /\ \A idx \in HorizonMonths :
              /\ CountInMonth(PrimaryEventsOf(x.id), idx) <= 1
              /\ CountInMonth(SecondaryEventsOf(x.id), idx) <= 1

\* C11 witness: an expanded expense whose primary day falls before today in
\* the first month of the horizon (no event), inside the window in a later
\* month (an event), and after today + horizonDays in the last month (no event)
C11_Witness ==
  /\ Expanded
  /\ \E i \in 1..Len(expenses) :
       LET l == ExpenseLocals(expenses[i])
           evs == PrimaryEventsOf(expenses[i].id)
       IN /\ l.primaryDay # 0 /\ OrZero(l.primaryAmount) > 0
          /\ ClampedKey(MonthIndexOfKey(TodayKey), l.primaryDay) < TodayKey
          /\ ClampedKey(MonthIndexOfKey(HorizonKey), l.primaryDay) > HorizonKey
          /\ \E idx \in HorizonMonths : ClampedKey(idx, l.primaryDay) \in DatesInMonth(evs, idx)

(***************************************************************************)
(* Properties of the projection window                                     *)
(***************************************************************************)
\* the dates of the events, and those not after today + horizonDays
EventDates == {events[j].date : j \in 1..Len(events)}
DatesInsideHorizon == {k \in EventDates : k <= HorizonKey}

\* the events dated after today + horizonDays
LateEvents == SelectSeq(events, LAMBDA e : e.date > HorizonKey)

\* the events listed by the DailyStats of the plan
RECURSIVE ListedEvents(_)
ListedEvents(stats) ==
  IF stats = <<>> THEN <<>> ELSE Head(stats).events \o ListedEvents(Tail(stats))

\* the opening balance plus the amounts of the events dated up to dateKey
BalanceUpTo(dateKey) == openingBalance + AmountBetween(events, 0, dateKey)

\* C12: the window runs from the earliest event date to min(latest event date,
\* today + horizonDays): the DailyStats are those of the event dates up to
\* today + horizonDays, none is dated later, and an event dated after today +
\* horizonDays is in no DailyStat, in no balance, and not in minBalance or
\* cashGap
C12_ProjectionWindow ==
  (Done /\ events # <<>>) =>
    /\ {plan.daily[i].date : i \in 1..Len(plan.daily)} = DatesInsideHorizon
    /\ \A i \in 1..Len(plan.daily) :
         /\ WindowStart <= plan.daily[i].date
         /\ plan.daily[i].date <= WindowEnd
         /\ plan.daily[i].date <= HorizonKey
         /\ plan.daily[i].balance = Round2(BalanceUpTo(plan.daily[i].date))
    /\ \A j \in 1..Len(ListedEvents(plan.daily)) : ListedEvents(plan.daily)[j].date <= HorizonKey
    /\ Len(ListedEvents(plan.daily)) + Len(LateEvents) = Len(events)
    /\ plan.minBalance =
         Round2(Least({openingBalance} \cup {BalanceUpTo(k) : k \in DatesInsideHorizon}))
    /\ plan.cashGap =
         Max(0, -Round2(Least({openingBalance} \cup {BalanceUpTo(k) : k \in DatesInsideHorizon})))

\* C12 witness: a plan with DailyStats and an outflow dated after today +
\* horizonDays that would have lowered the minimum balance
C12_Witness ==
  /\ Done
  /\ plan.daily # <<>>
  /\ \E j \in 1..Len(events) : events[j].date > HorizonKey /\ events[j].amount < 0
  /\ Round2(openingBalance + SumAmounts(events)) < plan.minBalance

\* every DailyStat of stats has events, all of its own date, and the dates
\* are event dates in strictly ascending order
SparseList(stats) ==
  /\ \A i \in 1..Len(stats) :
       /\ stats[i].events # <<>>
       /\ \A j \in 1..Len(stats[i].events) : stats[i].events[j].date = stats[i].date
       /\ stats[i].date \in EventDates
  /\ \A i \in 1..Len(stats) - 1 : stats[i].date < stats[i + 1].date

\* C13: every DailyStat of the daily list (while it is built and in the plan
\* returned) has a non-empty events list whose events all carry the
\* DailyStat's own date; a day without events is never materialized
C13_SparseDaily ==
  /\ SparseList(daily)
  /\ Done => SparseList(plan.daily)

\* C13 witness: a plan returned after a walk over at least one day without
\* events, with a DailyStat that holds two events
C13_Witness ==
  /\ Done
  /\ events # <<>>
  /\ Cardinality(WindowKeys) > Len(plan.daily)
  /\ \E i \in 1..Len(plan.daily) : Len(plan.daily[i].events) = 2

(***************************************************************************)
(* Properties of the opening balance and of the plan without events        *)
(***************************************************************************)
\* the sum of the balances of the accounts, a missing or unreadable balance
\* counting for 0
RECURSIVE AccountTotal(_)
AccountTotal(accs) ==
  IF accs = <<>> THEN 0 ELSE normalizeAmount(Head(accs).balance) + AccountTotal(Tail(accs))

\* C14: when no record produces an event, the plan returned has daily = [],
\* openingBalance = minBalance = the sum of the account balances rounded to 2
\* decimals, and cashGap = max(0, -openingBalance), a negative opening
\* balance included
C14_EmptyPlan ==
  (Done /\ collected = <<>>) =>
    /\ plan.daily = <<>>
    /\ plan.openingBalance = Round2(AccountTotal(accounts))
    /\ plan.minBalance = plan.openingBalance
    /\ plan.cashGap = Max(0, -plan.openingBalance)

\* C14 witness: a plan over a negative total of balances and a stale planned
\* payment, which produces no event: the gap is the opening balance negated
C14_Witness ==
  /\ Done
  /\ collected = <<>>
  /\ inflows # <<>>
  /\ plan.openingBalance < 0
  /\ plan.cashGap = -plan.openingBalance

\* C15: for every list of accounts the openingBalance of the plan is the sum
\* of the accounts' balances rounded to 2 decimals, whatever the inflows,
\* orders, expenses and settings, in the plan without events and in the plan
\* returned after the walk
C15_OpeningBalance ==
  Done => plan.openingBalance = Round2(AccountTotal(accounts))

\* C15 witness: a plan with DailyStats over two accounts whose total is not a
\* whole number of hundredths
C15_Witness ==
  /\ Done
  /\ plan.daily # <<>>
  /\ Len(accounts) = 2
  /\ normalizeAmount(accounts[1].balance) # 0
  /\ AccountTotal(accounts) % 10 # 0

(***************************************************************************)
(* Properties of projectBalanceOnDate                                      *)
(***************************************************************************)
Projected == pc = "projected"

\* the positions of the DailyStats of the plan dated target
MatchingDays(target) == {i \in 1..Len(plan.daily) : plan.daily[i].date = target}

\* C16: projectBalanceOnDate(plan, date) is null when plan.daily is empty, the
\* balance of the DailyStat of that date when there is one, and otherwise the
\* balance of the last DailyStat of the list, wherever the date lies: before
\* the first, between two, or after the last of the listed dates
C16_ProjectBalance ==
  Projected =>
    LET answer == projection[1].balance
        target == projection[1].target
    IN /\ plan.daily = <<>> => answer.null
       /\ plan.daily # <<>> =>
            /\ ~answer.null
            /\ \A i \in MatchingDays(target) : answer.v = plan.daily[i].balance
            /\ MatchingDays(target) = {} => answer.v = plan.daily[Len(plan.daily)].balance

\* C16 witness: a date strictly between two listed dates is answered with the
\* balance of the last DailyStat, which differs from the balance of the
\* DailyStat before the date and from the one after it
C16_Witness ==
  /\ Projected
  /\ Len(plan.daily) >= 3
  /\ \E i \in 1..(Len(plan.daily) - 2) :
       /\ plan.daily[i].date < projection[1].target
       /\ projection[1].target < plan.daily[i + 1].date
       /\ projection[1].balance.v = plan.daily[Len(plan.daily)].balance
       /\ projection[1].balance.v # plan.daily[i].balance
       /\ projection[1].balance.v # plan.daily[i + 1].balance

(***************************************************************************)
(* Properties of evaluateOrderImpact.  baseline holds the orders and the   *)
(* plan of the page at the time of the check; orders, collected and plan   *)
(* are those of the inner call of buildCashPlan.                           *)
(***************************************************************************)
Returned == pc = "returned"

\* the candidate as an order of the list, under the id 'new-order'
CandidateAsOrder ==
  [id |-> "new-order", total_amount |-> candidate[1].total_amount,
   deposit_amount |-> candidate[1].deposit_amount, deposit_paid |-> candidate[1].deposit_paid,
   deposit_date |-> candidate[1].deposit_date, due_date |-> candidate[1].due_date,
   currency |-> candidate[1].currency]

\* the minimum balance of a plan over the collected events: the least of the
\* opening balance and of the balance after each event date up to the horizon
MinOverCollected ==
  Least({AccountTotal(accounts)} \cup
        {AccountTotal(accounts) + AmountBetween(collected, 0, collected[j].date) :
           j \in {n \in 1..Len(collected) : collected[n].date <= HorizonKey}})

\* C17: evaluateOrderImpact returns exactly {ok: p.minBalance >= 0, minBalance:
\* p.minBalance, cashGap: p.cashGap} for p the plan of buildCashPlan over the
\* same records with the order list extended by the candidate under the id
\* 'new-order'; a minimum below zero gives ok = false and cashGap = the
\* shortfall
C17_OrderImpact ==
  Returned =>
    /\ impact[1] = [ok |-> plan.minBalance >= 0, minBalance |-> plan.minBalance,
                    cashGap |-> plan.cashGap]
    /\ orders = baseline[1].orders \o <<CandidateAsOrder>>
    /\ plan.minBalance = Round2(MinOverCollected)
    /\ impact[1].minBalance = Round2(MinOverCollected)
    /\ impact[1].minBalance < 0 => (~impact[1].ok /\ impact[1].cashGap = -impact[1].minBalance)
    /\ impact[1].minBalance >= 0 => (impact[1].ok /\ impact[1].cashGap = 0)

\* C17 witness: the page's plan has no gap, the candidate brings payments that
\* push the minimum below zero: ok is false and cashGap is the shortfall
C17_Witness ==
  /\ Returned
  /\ baseline[1].plan.cashGap = 0
  /\ EventsOf("new-order") # <<>>
  /\ ~impact[1].ok
  /\ impact[1].minBalance < 0
  /\ impact[1].cashGap = -impact[1].minBalance

\* a candidate with total_amount = 0 and deposit_amount = 0
EmptyCandidate ==
  /\ candidate # <<>>
  /\ candidate[1].total_amount = Num(0)
  /\ candidate[1].deposit_amount = Num(0)

\* C18: for a candidate with total_amount = 0 and deposit_amount = 0,
\* evaluateOrderImpact returns the minBalance and cashGap of buildCashPlan on
\* the same records without the candidate, and so ok = true and cashGap = 0
\* whenever that plan has no gap
C18_EmptyCandidate ==
  (Returned /\ EmptyCandidate) =>
    /\ impact[1].minBalance = baseline[1].plan.minBalance
    /\ impact[1].cashGap = baseline[1].plan.cashGap
    /\ baseline[1].plan.cashGap = 0 => (impact[1].ok /\ impact[1].cashGap = 0)

\* C18 witness: an empty candidate checked against a page plan with an order,
\* DailyStats and no gap: the answer is ok with no gap
C18_Witness ==
  /\ Returned
  /\ EmptyCandidate
  /\ baseline[1].orders # <<>>
  /\ baseline[1].plan.daily # <<>>
  /\ baseline[1].plan.cashGap = 0
  /\ impact[1].ok
  /\ impact[1].cashGap = 0

(***************************************************************************)
(* Properties of lib/settings, under SettingsSpec                          *)
(***************************************************************************)
Settled == pc = "settled"

\* the settings carry a cnyRate that is a number > 0
HasPositiveRate(s) == s.present /\ s.cnyRate.t = "number" /\ s.cnyRate.n > 0

\* C19 as stated: currencyRate is 1 for RUB whatever the settings; for CNY it
\* is settings.cnyRate when that is positive and 1 otherwise; and for every
\* settings value (missing, NaN, infinite, zero, negative) the multiplier is
\* a finite number > 0
C19_RateFinitePositive ==
  Settled =>
    /\ ofCurrency = "RUB" => rate = Num(1000)
    /\ (ofCurrency = "CNY" /\ HasPositiveRate(settings)) => rate = settings.cnyRate
    /\ (ofCurrency = "CNY" /\ ~HasPositiveRate(settings)) => rate = Num(1000)
    /\ rate.t = "number" /\ rate.n > 0

\* the cnyRate handed to normalizeSettings: that of raw.value when raw is a
\* row, that of raw otherwise
GivenRate ==
  IF raw.obj /\ raw.value.obj THEN raw.value.cnyRate
  ELSE IF raw.obj THEN raw.cnyRate ELSE JsUndef

\* the hundred-thousandths x kept to 4 decimals
Round4(x) ==
  LET lo == (x \div 10) * 10
  IN IF x - lo < 5 THEN lo ELSE lo + 10

\* C20 as stated: normalizeSettings returns an AppSettings whose cnyRate is a
\* positive finite number: the input's cnyRate kept to 4 decimals when it is
\* a finite number > 0, and 1 when it is missing, not a number, not finite,
\* zero or negative
C20_NormalizedRate ==
  pc \in {"currencyRate", "settled"} =>
    /\ normalized.present
    /\ normalized.cnyRate.t = "number"
    /\ normalized.cnyRate.n > 0
    /\ (GivenRate.t = "number" /\ GivenRate.n > 0) =>
         normalized.cnyRate.n = Round4(GivenRate.n)
    /\ (GivenRate.t \in {"undefined", "null", "NaN", "Infinity"}
        \/ (GivenRate.t = "number" /\ GivenRate.n <= 0)) =>
         normalized.cnyRate.n = 100000

(***************************************************************************)
(* Properties of malformed records, under Spec                             *)
(***************************************************************************)
\* a day of the month that is missing, not a number, or outside 1..31
DayIsMissing(v) == v.t \in {"null", "undefined"} \/ (v.t = "string" /\ v.s = <<>>)
DayIsNonNumeric(v) ==
  v.t = "NaN" \/ (v.t = "string" /\ v.s # <<>> /\ DigitPrefix(StripSign(v.s)) = <<>>)
DayIsOutOfRange(v) == v.t = "number" /\ (v.n < 1000 \/ v.n >= 32000)
DayIsUnusable(v) == DayIsMissing(v) \/ DayIsNonNumeric(v) \/ DayIsOutOfRange(v)

\* a day of the month that is a whole number of 1..31
DayIsSound(v) == v.t = "number" /\ v.n % 1000 = 0 /\ v.n >= 1000 /\ v.n <= 31000

\* the expense x with its day_secondary removed
WithoutSecondaryDay(x) == [x EXCEPT !.day_secondary = JsNull]

\* C21: an expense whose day_primary is missing, non-numeric or outside 1..31
\* contributes no event, and the other records are projected all the same;
\* an unusable day_secondary drops the secondary part only: the expense is
\* expanded as the same expense without day_secondary
C21_InvalidDaySkipped ==
  \A i \in 1..Len(expenses) :
    LET x == expenses[i] IN
    /\ DayIsUnusable(x.day_primary) =>
         /\ EventsOf(x.id) = <<>>
         /\ Expanded =>
              \A k \in 1..Len(expenses) :
                (DayIsSound(expenses[k].day_primary) /\ PlainExpense(expenses[k])) =>
                  PartFollowsWindow(PrimaryEventsOf(expenses[k].id),
                                    expenses[k].day_primary.n \div 1000)
         /\ Done => plan.openingBalance = Round2(AccountTotal(accounts))
    /\ (DayIsSound(x.day_primary) /\ DayIsUnusable(x.day_secondary)) =>
         /\ SecondaryEventsOf(x.id) = <<>>
         /\ \A j \in 1..Len(EventsOf(x.id)) : EventsOf(x.id)[j].description = "expense"
         /\ ExpenseLocals(x) = ExpenseLocals(WithoutSecondaryDay(x))
         /\ (Expanded /\ OrZero(ExpenseLocals(x).primaryAmount) > 0) =>
              PartFollowsWindow(PrimaryEventsOf(x.id), x.day_primary.n \div 1000)

\* C21 witness: a plan returned for two expenses, the first with a day_primary
\* of 32 and no event, the second with its events in the DailyStats
C21_Witness ==
  /\ Done
  /\ Len(expenses) = 2
  /\ expenses[1].day_primary = Num(32000)
  /\ EventsOf(expenses[1].id) = <<>>
  /\ EventsOf(expenses[2].id) # <<>>
  /\ plan.daily # <<>>

\* an amount that is null, undefined, the empty string or a string that does
\* not start with a number
Malformed(v) ==
  \/ v.t \in {"null", "undefined"}
  \/ v.t = "string" /\ DigitPrefix(StripSign(v.s)) = <<>>
       /\ (StripSign(v.s) = <<>> \/ Head(StripSign(v.s)) # ".")

\* the balances of the accounts, a malformed one counting for 0
RECURSIVE SoundTotal(_)
SoundTotal(accs) ==
  IF accs = <<>> THEN 0
  ELSE (IF Malformed(Head(accs).balance) THEN 0 ELSE normalizeAmount(Head(accs).balance))
       + SoundTotal(Tail(accs))

RecordsKept ==
  /\ accounts' = accounts
  /\ inflows' = inflows
  /\ expenses' = expenses
  /\ settings' = settings
  /\ candidate' = candidate

\* the order list changes only when evaluateOrderImpact hands the inner call
\* a fresh list, the caller's list being kept aside as it was
OrdersKept ==
  \/ orders' = orders /\ baseline' = baseline
  \/ /\ baseline = <<>>
     /\ baseline' # <<>>
     /\ baseline'[1].orders = orders
     /\ orders' = orders \o <<PlaceholderOrder(candidate[1])>>

\* C23: buildCashPlan and evaluateOrderImpact leave their inputs unchanged:
\* accounts, inflows, orders, expenses and settings are after every step what
\* they were before it, and the caller's order list does not hold the
\* placeholder order after evaluateOrderImpact
C23_InputsUnchanged ==
  /\ [][RecordsKept /\ OrdersKept]_vars
  /\ [](Returned =>
          /\ \A i \in 1..Len(baseline[1].orders) : baseline[1].orders[i].id # "new-order"
          /\ Len(orders) = Len(baseline[1].orders) + 1)

\* C23 witness: evaluateOrderImpact has returned for a candidate that brought
\* events, and the caller's list still holds its one order
C23_Witness ==
  /\ Returned
  /\ Len(baseline[1].orders) = 1
  /\ baseline[1].orders[1].id = "order-1"
  /\ orders[Len(orders)].id = "new-order"
  /\ EventsOf("new-order") # <<>>

Sorted == pc \in {"sorted", "walk", "done", "projected", "returned"}

\* C25 as stated: after the sort the events are in non-decreasing date order
\* and the events of one date keep the order in which they were collected
\* (inflows, then the order events, then the expense events), so that the
\* events of each DailyStat are in collection order
C25_StableOrder ==
  /\ Sorted =>
       /\ \A i \in 1..(Len(events) - 1) : events[i].date <= events[i + 1].date
       /\ \A j \in 1..Len(events) :
            EventsOn(events, events[j].date) = EventsOn(collected, events[j].date)
  /\ \A i \in 1..Len(daily) : daily[i].events = EventsOn(collected, daily[i].date)

(***************************************************************************)
(* Properties of PUT /api/orders, under PutSpec                            *)
(***************************************************************************)
Responded(c) == puts[c].pc = "responded"
Wrote(c) == puts[c].wrote # <<>>

\* two requests for the same order that carry the same updated_at
SameVersion(c, d) ==
  /\ c # d
  /\ ~Falsy(puts[c].body.updated_at)
  /\ puts[c].body.updated_at = puts[d].body.updated_at
  /\ puts[c].body.id = puts[d].body.id

\* the row changes only in the UPDATE of a request whose updated_at is the
\* stored one, and the change carries an updated_at the row did not have
RowChangesOnMatch ==
  row' # row =>
    \E c \in Clients :
      /\ puts[c].pc = "update"
      /\ row.updated_at = puts[c].body.updated_at
      /\ row'.updated_at # row.updated_at
      /\ row'.title = puts[c].body.title
      /\ row'.total_amount = puts[c].body.total_amount
      /\ puts'[c].status = 200

\* of two requests with the same updated_at at most one writes; the other,
\* when its body passes validation and the database answers, gets 409, and
\* the row stays as the writer left it
OneWriter ==
  \A c, d \in Clients :
    SameVersion(c, d) /\ Wrote(c) =>
      /\ ~Wrote(d)
      /\ row = puts[c].wrote[1]
      /\ Responded(d) /\ ~PutRejects(puts[d].body) /\ puts[d].status # 500
           => puts[d].status = 409

\* a request without updated_at is answered 400 and writes nothing
MissingStampRejected ==
  \A c \in Clients :
    Responded(c) /\ Falsy(puts[c].body.updated_at) =>
      puts[c].status = 400 /\ ~Wrote(c)

\* C26: PUT /api/orders changes the order row only when the stored
\* updated_at equals the one sent, and the change carries a new updated_at;
\* of two PUTs with the same updated_at at most one changes the row, the
\* other is answered 409 and the row keeps the writer's values; a PUT
\* without updated_at is answered 400 and changes nothing.
C26_OptimisticPut ==
  /\ [][RowChangesOnMatch]_vars
  /\ [](OneWriter /\ MissingStampRejected)

C26_Witness ==
  /\ SameVersion(1, 2)
  /\ Responded(1) /\ Responded(2)
  /\ puts[1].status = 200 /\ puts[2].status = 409
  /\ row = puts[1].wrote[1]
  /\ row.title = puts[1].body.title
  /\ row.title # puts[2].body.title

(***************************************************************************)
(* Termination of buildCashPlan, under TermSpec                            *)
(***************************************************************************)
InCall == pc \in {"collectEvents", "expenses", "months", "sorted", "walk"}

\* the month of today + horizonDays, and the month after it
HorizonMonth == startOfMonth(addDays(startOfDay(now), horizonDays))
PastHorizonMonth == addMonths(HorizonMonth, 1)

\* an iteration of the month loop moves the cursor to the next month
MonthAdvances ==
  pc = "months" /\ pc' = "months" /\ loc' # loc =>
    /\ ~isAfter(loc.cursor, HorizonMonth)
    /\ loc'.cursor = startOfMonth(addDays(loc.cursor, getDaysInMonth(loc.cursor)))

\* the month loop is left with the cursor on the month after the horizon's
MonthsEnd ==
  pc = "months" /\ pc' = "expenses" => loc.cursor = PastHorizonMonth

\* an iteration of the day walk moves the cursor to the next day
DayAdvances ==
  pc = "walk" /\ pc' = "walk" /\ walk' # walk =>
    /\ walk'.cursor.day = walk.cursor.day + 1
    /\ walk'.endDate = walk.endDate

\* the days the walk has stepped over, each iteration being one day
Iterations == walk.cursor.day - parseISO(events[1].date).day

StartDay == parseISO(events[1].date).day
EndDay == IF events[Len(events)].date > HorizonKey THEN now.day + horizonDays
          ELSE parseISO(events[Len(events)].date).day

\* the walk ends after end - start + 1 iterations, or none when the first
\* event is after the end
WalkLength ==
  Done /\ events # <<>> =>
    /\ StartDay <= EndDay => Iterations = EndDay - StartDay + 1
    /\ (\A i \in 1..Len(events) : events[i].date > HorizonKey) =>
         /\ Iterations = 0
         /\ plan.daily = <<>>
         /\ plan.minBalance = plan.openingBalance

\* C27: every call of buildCashPlan returns; each iteration of the month
\* loop moves the cursor one month on, up to the month of today +
\* horizonDays; each iteration of the day walk moves the cursor one day on,
\* and the walk makes end - start + 1 iterations when the first event is not
\* after the end date, none (daily empty, minBalance the opening balance)
\* when every event is after today + horizonDays.
C27_Terminates ==
  /\ InCall ~> Done
  /\ [][MonthAdvances /\ MonthsEnd /\ DayAdvances]_vars
  /\ []WalkLength

C27_Witness ==
  /\ Done
  /\ events # <<>>
  /\ Iterations >= 5
  /\ Iterations = EndDay - StartDay + 1
  /\ loc.cursor = PastHorizonMonth
  /\ FirstMonth # HorizonMonth

NothingWalked ==
  /\ Done
  /\ events # <<>>
  /\ \A i \in 1..Len(events) : events[i].date > HorizonKey

(***************************************************************************)
(* The minimum and the opening balance                                     *)
(***************************************************************************)
DailyBalances == {plan.daily[i].balance : i \in 1..Len(plan.daily)}

\* the tracker of the walk never exceeds the balance it started from
TrackerBelowOpening == pc = "walk" => walk.minBalance <= openingBalance

\* C28: in every plan returned minBalance <= openingBalance, and minBalance
\* is the least of openingBalance and the daily balances; an inflow on the
\* first day of the window does not lift minBalance above openingBalance.
C28_MinBelowOpening ==
  /\ TrackerBelowOpening
  /\ Done =>
       /\ plan.minBalance <= plan.openingBalance
       /\ plan.minBalance = Least({plan.openingBalance} \cup DailyBalances)

\* C28 witness: a plan whose every daily balance is above the opening
\* balance, the first day of the window bringing an inflow
C28_Witness ==
  /\ Done
  /\ plan.daily # <<>>
  /\ plan.daily[1].events[1].type = "inflow"
  /\ \A b \in DailyBalances : b > plan.openingBalance
  /\ plan.minBalance = plan.openingBalance

(***************************************************************************)
(* The impact of a candidate against the plan without it                   *)
(***************************************************************************)
\* the plan the page built from the same records, without the candidate
Without == baseline[1].plan

\* the candidate has an event before the first or after the last event of
\* the plan without it
ExtendsWindow ==
  /\ Without.daily # <<>>
  /\ \E i \in 1..Len(events) :
       /\ events[i].source = "new-order"
       /\ \/ events[i].date < Without.daily[1].date
          \/ events[i].date > Without.daily[Len(Without.daily)].date

\* C29: the minBalance returned by evaluateOrderImpact is at most the
\* minBalance of the plan built from the same records without the
\* candidate, and its cashGap at least that plan's, also when the
\* candidate's dates lie before or after every other event; so ok = true
\* means that the plan without the candidate has no gap.
C29_NeverImproves ==
  Returned =>
    /\ impact[1].minBalance <= Without.minBalance
    /\ impact[1].cashGap >= Without.cashGap
    /\ impact[1].ok => Without.cashGap = 0 /\ Without.minBalance >= 0

\* C29 witness: a candidate with a payment before the first event of the
\* plan without it and one after the last, lowering the minimum
C29_Witness ==
  /\ Returned
  /\ ExtendsWindow
  /\ \E i \in 1..Len(events) :
       events[i].source = "new-order" /\ events[i].date < Without.daily[1].date
  /\ \E i \in 1..Len(events) :
       events[i].source = "new-order"
       /\ events[i].date > Without.daily[Len(Without.daily)].date
  /\ impact[1].minBalance < Without.minBalance

(***************************************************************************)
(* The daily list as a partition of the events of the window               *)
(***************************************************************************)
InWindow(e) == WindowStart <= e.date /\ e.date <= WindowEnd

\* how many times the event e occurs in the list evs
Occurrences(evs, e) == Cardinality({k \in 1..Len(evs) : evs[k] = e})

\* the DailyStats that list the event e
StatsListing(e) == {i \in 1..Len(plan.daily) : Occurrences(plan.daily[i].events, e) > 0}

\* the collected events of the window, in the order collected
WindowEvents == SelectSeq(collected, InWindow)

\* C30: the DailyStat dates are strictly ascending; every collected event
\* dated within the window is listed in exactly one DailyStat, that of its
\* date, as many times as it was collected; an event outside the window is
\* listed in none; the DailyStats list nothing else; and the balance of the
\* last DailyStat is the opening balance plus the amounts of all events of
\* the window.
C30_DailyPartition ==
  (Done /\ events # <<>>) =>
    /\ \A i \in 1..(Len(plan.daily) - 1) : plan.daily[i].date < plan.daily[i + 1].date
    /\ \A k \in 1..Len(collected) :
         IF InWindow(collected[k])
         THEN \E i \in 1..Len(plan.daily) :
                /\ StatsListing(collected[k]) = {i}
                /\ plan.daily[i].date = collected[k].date
                /\ Occurrences(plan.daily[i].events, collected[k])
                     = Occurrences(collected, collected[k])
         ELSE StatsListing(collected[k]) = {}
    /\ \A i \in 1..Len(plan.daily) : \A j \in 1..Len(plan.daily[i].events) :
         Occurrences(collected, plan.daily[i].events[j]) > 0
    /\ (plan.daily = <<>>) = (WindowEvents = <<>>)
    /\ plan.daily # <<>> =>
         plan.daily[Len(plan.daily)].balance
           = Round2(openingBalance + SumAmounts(WindowEvents))

\* C30 witness: a plan of several days, one of them with two events, built
\* from events of which one lies beyond the window
C30_Witness ==
  /\ Done
  /\ Len(plan.daily) >= 2
  /\ \E i \in 1..Len(plan.daily) : Len(plan.daily[i].events) = 2
  /\ Len(WindowEvents) < Len(collected)
  /\ SumAmounts(WindowEvents) # SumAmounts(collected)

====
